---- MODULE Spec2Model ----
(***************************************************************************)
(* Memory hooks and memory client of the multi-agent customer support      *)
(* labs (lab_helpers/memory/hooks.py, lab_helpers/memory/client.py) and    *)
(* the runtime entrypoint that drives one conversational turn.             *)
(*                                                                         *)
(* Python strings are sequences of one-character strings, so that          *)
(* formatting, splitting, stripping and upper-casing are computed the way  *)
(* the code computes them.                                                 *)
(***************************************************************************)
EXTENDS Integers, Sequences, FiniteSets, TLC

----------------------------------------------------------------------------
(* Python str operations used by the hooks                                 *)

Lowers == <<"a","b","c","d","e","f","g","h","i","j","k","l","m","n","o","p","q","r","s","t","u","v","w","x","y","z">>
Uppers == <<"A","B","C","D","E","F","G","H","I","J","K","L","M","N","O","P","Q","R","S","T","U","V","W","X","Y","Z">>

Whitespace == {" ", "\n", "\t"}

upper_char(c) ==
  IF \E i \in 1..Len(Lowers) : Lowers[i] = c
  THEN Uppers[CHOOSE i \in 1..Len(Lowers) : Lowers[i] = c]
  ELSE c

\* str.upper()
str_upper(s) == [i \in 1..Len(s) |-> upper_char(s[i])]

\* str.strip(): drop leading and trailing whitespace
str_strip(s) ==
  LET keep == {i \in 1..Len(s) : s[i] \notin Whitespace}
  IN  IF keep = {} THEN <<>>
      ELSE SubSeq(s, CHOOSE i \in keep : \A j \in keep : i <= j,
                     CHOOSE i \in keep : \A j \in keep : i >= j)

\* sub in s
str_contains(s, sub) ==
  \E i \in 0..(Len(s) - Len(sub)) : SubSeq(s, i + 1, i + Len(sub)) = sub

\* s.split(sep) for a one-character separator: the segments between the
\* occurrences of sep, in order
str_split(s, sep) ==
  LET cuts   == {0, Len(s) + 1} \cup {i \in 1..Len(s) : s[i] = sep}
      cut(k) == CHOOSE p \in cuts : Cardinality({q \in cuts : q < p}) = k - 1
  IN  [k \in 1..(Cardinality(cuts) - 1) |-> SubSeq(s, cut(k) + 1, cut(k + 1) - 1)]

\* sep.join(parts)
RECURSIVE str_join(_, _)
str_join(parts, sep) ==
  IF parts = <<>> THEN <<>>
  ELSE IF Len(parts) = 1 THEN parts[1]
  ELSE parts[1] \o sep \o str_join(Tail(parts), sep)

S_placeholder == <<"{","a","c","t","o","r","I","d","}">>

\* template.format(actorId=actor): "{actorId}" is replaced, "{{" and "}}" are
\* the escapes of a brace, any other replacement field or a lone brace raises
\* (KeyError / ValueError).  Result: [ok |-> did not raise, val |-> the text].
RECURSIVE str_format_from(_, _, _)
str_format_from(t, i, actor) ==
  IF i > Len(t) THEN [ok |-> TRUE, val |-> <<>>]
  ELSE IF t[i] = "{" THEN
         IF i < Len(t) /\ t[i + 1] = "{"
         THEN LET r == str_format_from(t, i + 2, actor)
              IN  [ok |-> r.ok, val |-> <<"{">> \o r.val]
         ELSE IF i + 8 <= Len(t) /\ SubSeq(t, i, i + 8) = S_placeholder
         THEN LET r == str_format_from(t, i + 9, actor)
              IN  [ok |-> r.ok, val |-> actor \o r.val]
         ELSE [ok |-> FALSE, val |-> <<>>]
  ELSE IF t[i] = "}" THEN
         IF i < Len(t) /\ t[i + 1] = "}"
         THEN LET r == str_format_from(t, i + 2, actor)
              IN  [ok |-> r.ok, val |-> <<"}">> \o r.val]
         ELSE [ok |-> FALSE, val |-> <<>>]
  ELSE LET r == str_format_from(t, i + 1, actor)
       IN  [ok |-> r.ok, val |-> <<t[i]>> \o r.val]

str_format(t, actor) == str_format_from(t, 1, actor)

----------------------------------------------------------------------------
(* String literals of the source                                           *)

S_customer == <<"c","u","s","t","o","m","e","r">>
S_general == <<"g","e","n","e","r","a","l">>
S_AgentContextOpen == <<"A","g","e","n","t"," ","C","o","n","t","e","x","t"," ","(">>
S_AgentContextClose == <<")",":","\n">>
S_nl == <<"\n">>
S_nlnl == <<"\n","\n">>
S_lbracket == <<"[">>
S_rbracket_sp == <<"]"," ">>

\* namespace templates of the strategies created by create_multi_agent_memory
T_preferences == <<"s","u","p","p","o","r","t","/","c","u","s","t","o","m","e","r","/","{","a","c","t","o","r","I","d","}","/","p","r","e","f","e","r","e","n","c","e","s">>
T_semantic == <<"s","u","p","p","o","r","t","/","c","u","s","t","o","m","e","r","/","{","a","c","t","o","r","I","d","}","/","s","e","m","a","n","t","i","c">>

\* agent_type labels passed by the three specialised hooks
A_Orchestrator == <<"O","r","c","h","e","s","t","r","a","t","o","r">>
A_CustomerSupport == <<"C","u","s","t","o","m","e","r","S","u","p","p","o","r","t">>
A_KnowledgeBase == <<"K","n","o","w","l","e","d","g","e","B","a","s","e">>

\* CUSTOMER_ID of the runtimes
Actor_001 == <<"c","u","s","t","o","m","e","r","_","0","0","1">>

----------------------------------------------------------------------------
(* BaseMultiAgentMemoryHook                                                *)

\* top_k of the retrieve_memories call in retrieve_agent_context
top_k == 2

\* self._namespaces = None
NoneNamespaces == [is_none |-> TRUE, items |-> <<>>]

\* A Python dict keeps its keys in insertion order: the cache is the list of
\* its (key, value) items.
DictOf(items) == [is_none |-> FALSE, items |-> items]

\* d[key] = value on the item list of a dict
dict_set(items, key, value) ==
  IF \E i \in 1..Len(items) : items[i].type = key
  THEN [i \in 1..Len(items) |->
          IF items[i].type = key THEN [type |-> key, namespaces |-> value] ELSE items[i]]
  ELSE Append(items, [type |-> key, namespaces |-> value])

\* {strategy["type"]: strategy["namespaces"] for strategy in strategies}
RECURSIVE strategies_dict(_, _)
strategies_dict(strategies, items) ==
  IF strategies = <<>> THEN items
  ELSE strategies_dict(Tail(strategies),
                       dict_set(items, Head(strategies).type, Head(strategies).namespaces))

\* the property without its cache: the strategies are fetched on every read
namespaces_refetch(cache, fetch) ==
  IF fetch.raises THEN DictOf(<<>>)
  ELSE DictOf(strategies_dict(fetch.strategies, <<>>))

\* The namespaces property: the cache is filled on first use from
\* get_memory_strategies; a raising call leaves the empty dict cached.
\* fetch = [raises |-> BOOLEAN, strategies |-> what the call returns]
namespaces(cache, fetch) ==
  IF cache.is_none
  THEN IF fetch.raises THEN DictOf(<<>>)
       ELSE DictOf(strategies_dict(fetch.strategies, <<>>))
  ELSE cache

\* only the first template of each strategy
RECURSIVE dict_namespaces_first(_)
dict_namespaces_first(items) ==
  IF items = <<>> THEN <<>>
  ELSE (IF Head(items).namespaces = <<>> THEN <<>> ELSE <<Head(Head(items).namespaces)>>)
         \o dict_namespaces_first(Tail(items))

\* all templates of the dict, in iteration order
RECURSIVE dict_namespaces(_)
dict_namespaces(items) ==
  IF items = <<>> THEN <<>>
  ELSE Head(items).namespaces \o dict_namespaces(Tail(items))

\* get_relevant_namespaces on a filled cache: every template that contains
\* "customer", formatted with the actor id.  [ok |-> FALSE] when format raises.
RECURSIVE relevant_from(_, _)
relevant_from(templates, actor) ==
  IF templates = <<>> THEN [ok |-> TRUE, val |-> <<>>]
  ELSE LET rest == relevant_from(Tail(templates), actor)
           t    == Head(templates)
       IN  IF str_contains(t, S_customer)
           THEN LET f == str_format(t, actor)
                IN  IF f.ok /\ rest.ok
                    THEN [ok |-> TRUE, val |-> <<f.val>> \o rest.val]
                    ELSE [ok |-> FALSE, val |-> <<>>]
           ELSE rest

get_relevant_namespaces(cache, actor) == relevant_from(dict_namespaces(cache.items), actor)

\* One retrieved memory.  shape says which of the isinstance / get guards of
\* the loop it passes: "ok" is {"content": {"text": text}}.
Memory(text) == [shape |-> "ok", text |-> text]
MemoryNotDict == [shape |-> "not_dict", text |-> <<>>]
MemoryContentNotDict == [shape |-> "content_not_dict", text |-> <<>>]
MemoryNoText == [shape |-> "no_text", text |-> <<>>]

\* the text of a memory taken without strip()
memory_text_unstripped(m) ==
  IF m.shape = "ok" THEN m.text ELSE <<>>

\* content.get("text", "").strip() of a memory that passes both isinstance
\* guards; the empty text otherwise (an empty text is skipped)
memory_text(m) ==
  IF m.shape = "ok" THEN str_strip(m.text) ELSE <<>>

\* namespace_type taken from the last path segment instead of the second
namespace_type_last(namespace) ==
  LET namespace_parts == str_split(namespace, "/")
  IN  IF Len(namespace_parts) > 1 THEN namespace_parts[Len(namespace_parts)] ELSE S_general

\* namespace_type of a formatted namespace
namespace_type(namespace) ==
  LET namespace_parts == str_split(namespace, "/")
  IN  IF Len(namespace_parts) > 1 THEN namespace_parts[2] ELSE S_general

\* the all_context entries contributed by the memories of one namespace,
\* whose upper-cased namespace_type is label
RECURSIVE context_lines(_, _)
context_lines(label, memories) ==
  IF memories = <<>> THEN <<>>
  ELSE LET text == memory_text(Head(memories))
           rest == context_lines(label, Tail(memories))
       IN  IF text # <<>>
           THEN <<S_lbracket \o label \o S_rbracket_sp \o text>> \o rest
           ELSE rest

\* the loop with the try inside it: a raising call only loses its own namespace
RECURSIVE collect_context_isolated(_, _, _)
collect_context_isolated(relevant, results, i) ==
  IF i > Len(relevant) THEN [ok |-> TRUE, ctx |-> <<>>, calls |-> 0]
  ELSE LET rest == collect_context_isolated(relevant, results, i + 1)
       IN  [ok    |-> rest.ok,
            ctx   |-> (IF results[i].raises THEN <<>>
                       ELSE context_lines(str_upper(namespace_type(relevant[i])),
                                          results[i].memories)) \o rest.ctx,
            calls |-> 1 + rest.calls]

\* the for loop over relevant_namespaces: results[i] is the outcome of the
\* i-th retrieve_memories call, [raises |-> BOOLEAN, memories |-> list].
\* [ok |-> no call raised, ctx |-> all_context, calls |-> calls made]
RECURSIVE collect_context(_, _, _)
collect_context(relevant, results, i) ==
  IF i > Len(relevant) THEN [ok |-> TRUE, ctx |-> <<>>, calls |-> 0]
  ELSE IF results[i].raises THEN [ok |-> FALSE, ctx |-> <<>>, calls |-> 1]
  ELSE LET rest == collect_context(relevant, results, i + 1)
       IN  [ok    |-> rest.ok,
            ctx   |-> context_lines(str_upper(namespace_type(relevant[i])),
                                    results[i].memories) \o rest.ctx,
            calls |-> 1 + rest.calls]

\* f"Agent Context ({self.agent_type}):\n{context_text}\n\n{original_text}"
inject_context(agent, all_context, original_text) ==
  S_AgentContextOpen \o agent \o S_AgentContextClose
    \o str_join(all_context, S_nl) \o S_nlnl \o original_text

\* messages[-1]["content"][0]["text"] = text
set_last_text(msgs, text) ==
  [msgs EXCEPT ![Len(msgs)] =
     [@ EXCEPT !.content = [@ EXCEPT ![1] = [@ EXCEPT !.text = text]]]]

\* the guard without its test of the role
context_guard_any_role(msgs) ==
  IF msgs = <<>> THEN "IndexError"
  ELSE LET last == msgs[Len(msgs)] IN
       IF last.content = <<>> THEN "IndexError"
       ELSE IF "toolResult" \in DOMAIN last.content[1] THEN "skip"
       ELSE IF "text" \notin DOMAIN last.content[1] THEN "KeyError"
       ELSE "query"

\* the guard with its test of the role inverted
context_guard_assistant(msgs) ==
  IF msgs = <<>> THEN "IndexError"
  ELSE LET last == msgs[Len(msgs)] IN
       IF last.role # "assistant" THEN "skip"
       ELSE IF last.content = <<>> THEN "IndexError"
       ELSE IF "toolResult" \in DOMAIN last.content[1] THEN "skip"
       ELSE IF "text" \notin DOMAIN last.content[1] THEN "KeyError"
       ELSE "query"

\* the lookups at the head of retrieve_agent_context, which are outside its
\* try block: "IndexError" / "KeyError" leave the callback, "skip" is the
\* condition being false, "query" is a user message whose text is the query
context_guard(msgs) ==
  IF msgs = <<>> THEN "IndexError"
  ELSE LET last == msgs[Len(msgs)] IN
       IF last.role # "user" THEN "skip"
       ELSE IF last.content = <<>> THEN "IndexError"
       ELSE IF "toolResult" \in DOMAIN last.content[1] THEN "skip"
       ELSE IF "text" \notin DOMAIN last.content[1] THEN "KeyError"
       ELSE "query"

\* the try block of retrieve_agent_context: relevant is what
\* get_relevant_namespaces() gave ([ok |-> FALSE] when it raised), results[i]
\* the outcome of the i-th retrieve_memories call.  The transcript after the
\* callback, the retrieve_memories calls made, and whether context was injected.
retrieve_agent_context(msgs, agent, relevant, results) ==
  LET got    == IF relevant.ok THEN collect_context(relevant.val, results, 1)
                ELSE [ok |-> FALSE, ctx |-> <<>>, calls |-> 0]
      inject == got.ok /\ got.ctx # <<>>
      original_text == msgs[Len(msgs)].content[1].text
  IN  [messages  |-> IF inject
                     THEN set_last_text(msgs, inject_context(agent, got.ctx, original_text))
                     ELSE msgs,
       retrieves |-> got.calls,
       injected  |-> inject]

\* the reversed(messages) walk of save_agent_interaction, from message i down:
\* exc is the exception an index or key lookup raised ("none" when none did),
\* user_query and agent_response are [set |-> assigned, text |-> value]
RECURSIVE last_exchange(_, _, _)
last_exchange(msgs, i, agent_response) ==
  IF i < 1 THEN [exc |-> "none", user_query |-> [set |-> FALSE, text |-> <<>>],
                 agent_response |-> agent_response]
  ELSE LET msg == msgs[i]
           failed(exc) == [exc |-> exc, user_query |-> [set |-> FALSE, text |-> <<>>],
                           agent_response |-> agent_response]
       IN
       IF msg.role = "assistant" /\ (~agent_response.set \/ agent_response.text = <<>>)
       THEN IF msg.content = <<>> THEN failed("IndexError")
            ELSE IF "text" \notin DOMAIN msg.content[1] THEN failed("KeyError")
            ELSE last_exchange(msgs, i - 1, [set |-> TRUE, text |-> msg.content[1].text])
       ELSE IF msg.role = "user"
       THEN IF msg.content = <<>> THEN failed("IndexError")
            ELSE IF "toolResult" \in DOMAIN msg.content[1]
            THEN last_exchange(msgs, i - 1, agent_response)
            ELSE IF "text" \notin DOMAIN msg.content[1] THEN failed("KeyError")
            ELSE [exc |-> "none",
                  user_query |-> [set |-> TRUE, text |-> msg.content[1].text],
                  agent_response |-> agent_response]
       ELSE last_exchange(msgs, i - 1, agent_response)

\* f"[{self.agent_type}] {agent_response}" without the agent tag
enhanced_response_untagged(agent, agent_response) == agent_response

\* f"[{self.agent_type}] {agent_response}"
enhanced_response(agent, agent_response) ==
  S_lbracket \o agent \o S_rbracket_sp \o agent_response

\* an except clause that raises the exception again
except_reraise(exc) == exc

\* an except clause that lets everything but KeyError through
except_KeyError(exc) == IF exc = "KeyError" THEN "none" ELSE exc

\* except Exception as e: the exception is logged and does not leave the block
except_Exception(exc) == "none"

\* save_agent_interaction(event): the create_event calls it makes (none or
\* one) and the exception that leaves it.  create_raises says whether the
\* create_event call, if made, raises.
save_agent_interaction(msgs, mem, actor, session, agent, create_raises) ==
  IF Len(msgs) >= 2 /\ msgs[Len(msgs)].role = "assistant"
  THEN LET x == last_exchange(msgs, Len(msgs), [set |-> FALSE, text |-> <<>>])
       IN  IF x.exc # "none" THEN [calls |-> <<>>, raised |-> except_Exception(x.exc)]
           ELSE IF /\ x.user_query.set /\ x.user_query.text # <<>>
                   /\ x.agent_response.set /\ x.agent_response.text # <<>>
           THEN [calls |-> << [memory_id  |-> mem,
                              actor_id   |-> actor,
                              session_id |-> session,
                              messages   |-> << <<x.user_query.text, "USER">>,
                                                <<enhanced_response(agent, x.agent_response.text),
                                                  "ASSISTANT">> >>] >>,
                 raised |-> IF create_raises THEN except_Exception("ClientError") ELSE "none"]
           ELSE [calls |-> <<>>, raised |-> "none"]
  ELSE [calls |-> <<>>, raised |-> "none"]

----------------------------------------------------------------------------
(* MultiAgentMemoryClient                                                  *)

\* Python None, for a memory id
None == "None"

\* progress_tracker.progress.get('setup_status', {}).get('memory_id')
persisted_memory_id(progress) ==
  IF progress.has_setup_status THEN progress.memory_id ELSE None

\* the memory_id property: an unset cache is loaded from the progress record
memory_id_get(cached, progress) ==
  IF cached = None THEN persisted_memory_id(progress) ELSE cached

\* the memory_id setter: the progress record after it (and save_progress)
memory_id_set(progress, value) ==
  [has_setup_status |-> TRUE, memory_id |-> value]

\* create_multi_agent_memory that tries the create call a second time
create_multi_agent_memory_retry(cached, progress, create) ==
  IF create.raises
  THEN [cached |-> cached, progress |-> progress, result |-> None,
        raised |-> "ClientError", creates |-> 2, created |-> {}]
  ELSE [cached |-> create.id, progress |-> memory_id_set(progress, create.id),
        result |-> create.id, raised |-> "none", creates |-> 1, created |-> {create.id}]

\* create_multi_agent_memory(name).  create is the outcome of
\* create_memory_and_wait: [raises |-> BOOLEAN, id |-> response["id"]].
\* The client's cache and the progress record after the call, what it returns,
\* the exception that leaves it, the create calls made and the ids created.
create_multi_agent_memory(cached, progress, create) ==
  IF create.raises
  THEN [cached |-> cached, progress |-> progress, result |-> None,
        raised |-> "ClientError", creates |-> 1, created |-> {}]
  ELSE [cached |-> create.id, progress |-> memory_id_set(progress, create.id),
        result |-> create.id, raised |-> "none", creates |-> 1, created |-> {create.id}]

\* get_or_create_memory that does not look for an existing memory
get_or_create_memory_always_create(cached, progress, get_raises, create) ==
  create_multi_agent_memory(memory_id_get(cached, progress), progress, create)

\* get_or_create_memory(name).  get_raises says whether get_memory raises for
\* the known id.
get_or_create_memory(cached, progress, get_raises, create) ==
  LET known == memory_id_get(cached, progress)
  IN  IF known # None /\ ~get_raises
      THEN [cached |-> known, progress |-> progress, result |-> known,
            raised |-> "none", creates |-> 0, created |-> {}]
      ELSE create_multi_agent_memory(known, progress, create)

\* cleanup_memory that clears the cache and leaves the progress record
cleanup_memory_cache_only(cached, progress) ==
  [cached |-> None, progress |-> progress, result |-> TRUE,
   raised |-> "none", creates |-> 0, created |-> {}]

\* cleanup_memory(): nothing is deleted in the store; the memory_id key is
\* popped from setup_status and the cache is unset
cleanup_memory(cached, progress) ==
  LET known == memory_id_get(cached, progress)
  IN  IF known = None
      THEN [cached |-> known, progress |-> progress, result |-> TRUE,
            raised |-> "none", creates |-> 0, created |-> {}]
      ELSE [cached |-> None,
            progress |-> IF progress.has_setup_status
                         THEN [progress EXCEPT !.memory_id = None] ELSE progress,
            result |-> TRUE, raised |-> "none", creates |-> 0, created |-> {}]

----------------------------------------------------------------------------
(* State                                                                   *)

VARIABLES
  agent_type,          \* hook.agent_type
  actor_id,            \* hook.actor_id
  _namespaces,         \* hook._namespaces, the cached strategy -> namespaces dict
  store_strategies,    \* the strategies configured in the external memory store
  messages,            \* event.agent.messages, the transcript of the agent
  events,              \* the events the store holds, in the order they were appended
  create_event_calls,  \* the create_event calls made so far, raising ones included
  retrieve_calls,      \* the number of retrieve_memories calls made so far
  strategy_calls,      \* the number of get_memory_strategies calls made so far
  strategy_fetch,      \* how the get_memory_strategies call went: "none" yet, "ok", "raised"
  pc,                  \* where the process is
  prompt,              \* the prompt the entrypoint received for the current turn
  returned,            \* what the entrypoint returned
  turn,                \* turns started so far
  rounds,              \* tool rounds of the current turn
  answer,              \* the text of the model's final message of the current turn
  memory_id,           \* hook.memory_id
  _memory_id,          \* client._memory_id of each MultiAgentMemoryClient
  progress,            \* progress_tracker.progress: setup_status and its memory_id
  store_memories,      \* the ids of the memories the external store holds
  create_calls,        \* the number of create_memory_and_wait calls made so far
  client_ops,          \* the number of client operations called so far
  obs                  \* what the last operation was called with and did

hookVars  == <<agent_type, actor_id, memory_id, _namespaces>>
storeVars == <<store_strategies, events>>
callVars  == <<create_event_calls, retrieve_calls, strategy_calls, strategy_fetch>>
turnVars  == <<prompt, returned, answer, turn, rounds>>
clientVars == <<_memory_id, progress, store_memories, create_calls, client_ops>>
vars == <<agent_type, actor_id, _namespaces, store_strategies, messages, events,
          create_event_calls, retrieve_calls, strategy_calls, strategy_fetch, pc,
          prompt, returned, answer, turn, rounds, memory_id, _memory_id, progress,
          store_memories, create_calls, client_ops, obs>>

\* hook.session_id: one session per process
HookSessionId == "session-1"

\* the id of a memory created before the process started
OldMemoryId == "memory-0"

\* the clients of the deployment
NumClients == 2
Clients == 1..NumClients

\* the state before any client or hook exists: what the progress record and
\* the store hold from earlier runs
NoProgress == [has_setup_status |-> FALSE, memory_id |-> None]

InitClientVars ==
  /\ _memory_id = [c \in Clients |-> None]
  /\ create_calls = 0
  /\ client_ops = 0
  /\ \/ progress = NoProgress /\ store_memories = {}
     \/ progress = [has_setup_status |-> TRUE, memory_id |-> None] /\ store_memories = {}
     \/ progress = memory_id_set(NoProgress, OldMemoryId) /\ store_memories = {OldMemoryId}
     \/ progress = memory_id_set(NoProgress, OldMemoryId) /\ store_memories = {}

\* a hook made for a memory that already exists
InitHookOnly ==
  /\ memory_id = OldMemoryId
  /\ _memory_id = [c \in Clients |-> None]
  /\ progress = memory_id_set(NoProgress, OldMemoryId)
  /\ store_memories = {OldMemoryId}
  /\ create_calls = 0
  /\ client_ops = 0
  /\ answer = <<>>

----------------------------------------------------------------------------
(* Inputs                                                                  *)

T_routing == <<"s","u","p","p","o","r","t","/","o","r","c","h","e","s","t","r","a","t","o","r","/","{","a","c","t","o","r","I","d","}","/","r","o","u","t","i","n","g">>
T_solutions == <<"s","u","p","p","o","r","t","/","t","e","c","h","n","i","c","a","l","/","{","a","c","t","o","r","I","d","}","/","s","o","l","u","t","i","o","n","s">>

A_Other == <<"B","i","l","l","i","n","g">>
Actor_002 == <<"c","2">>
Q_battery == <<"b","a","t","t","e","r","y"," ","d","r","a","i","n">>
Q_hi == <<"h","i">>
X_BatteryInfo == <<"B","a","t","t","e","r","y"," ","i","n","f","o">>
X_padded == <<" ","t","i","p","\n">>
X_blank == <<" ">>
R_hello == <<"h","e","l","l","o">>

AgentTypes == {A_Orchestrator, A_CustomerSupport, A_KnowledgeBase, A_Other}
Actors == {Actor_001, Actor_002}

Strategy(type, nss) == [type |-> type, namespaces |-> nss]

\* what get_memory_strategies can return: the set created by
\* create_multi_agent_memory, and stores configured otherwise
DefaultStrategies ==
  << Strategy("USER_PREFERENCE", <<T_preferences>>), Strategy("SEMANTIC", <<T_semantic>>) >>

StrategySets ==
  { DefaultStrategies,
    << Strategy("SEMANTIC", <<T_semantic>>) >>,
    << Strategy("SEMANTIC", <<T_routing, T_semantic>>), Strategy("USER_PREFERENCE", <<T_solutions>>) >>,
    << Strategy("SEMANTIC", <<T_preferences>>), Strategy("SEMANTIC", <<T_semantic>>) >>,
    << Strategy("CUSTOM", <<T_routing>>) >>,
    << >> }

\* messages of a transcript
UserText(t) == [role |-> "user", content |-> << [text |-> t] >>]
AssistantText(t) == [role |-> "assistant", content |-> << [text |-> t] >>]
AssistantToolUse == [role |-> "assistant", content |-> << [toolUse |-> "call"] >>]
AssistantTextToolUse(t) == [role |-> "assistant", content |-> << [text |-> t], [toolUse |-> "call"] >>]
ToolResult == [role |-> "user", content |-> << [toolResult |-> "result"] >>]

\* messages of a shape the callbacks do not expect: no content block, or a
\* first block that is neither text nor a tool result
UserEmpty == [role |-> "user", content |-> << >>]
AssistantEmpty == [role |-> "assistant", content |-> << >>]
UserImage == [role |-> "user", content |-> << [image |-> "png"] >>]

\* what one retrieve_memories call can do: raise, or return up to top_k
\* memories, well-formed or of a shape one of the guards of the loop rejects
Raises == [raises |-> TRUE, memories |-> <<>>]
Returns(ms) == [raises |-> FALSE, memories |-> ms]

MemoryLists ==
  { << >>,
    << Memory(X_BatteryInfo) >>, << Memory(X_padded) >>, << Memory(X_blank) >>,
    << MemoryNotDict >>, << MemoryContentNotDict >>, << MemoryNoText >>,
    << Memory(X_BatteryInfo), Memory(X_padded) >>,
    << Memory(X_blank), Memory(X_BatteryInfo) >>,
    << MemoryNotDict, Memory(X_padded) >> }

RetrieveOutcomes == {Raises} \cup { Returns(ms) : ms \in {l \in MemoryLists : Len(l) <= top_k} }

----------------------------------------------------------------------------
(* SpecContext: the two lookups of the hook, called on bounded inputs       *)

ContextTranscripts ==
  { << UserText(Q_battery) >>,
    << UserText(<<>>) >>,
    << UserText(Q_hi), AssistantText(R_hello), UserText(Q_battery) >>,
    << UserText(Q_hi), AssistantText(R_hello) >>,
    << UserText(Q_hi), AssistantToolUse, ToolResult >>,
    << >>,
    << UserEmpty >>,
    << UserText(Q_hi), AssistantEmpty >>,
    << UserImage >> }

NoObs == [op |-> "none"]

InitContext ==
  /\ InitHookOnly
  /\ agent_type \in AgentTypes
  /\ actor_id \in Actors
  /\ _namespaces = NoneNamespaces
  /\ store_strategies \in StrategySets
  /\ messages \in ContextTranscripts
  /\ events = <<>>
  /\ create_event_calls = <<>>
  /\ retrieve_calls = 0
  /\ strategy_calls = 0
  /\ strategy_fetch = "none"
  /\ pc = "ready"
  /\ prompt = <<>>
  /\ returned = <<>>
  /\ turn = 0
  /\ rounds = 0
  /\ obs = NoObs

\* The MessageAddedEvent callback on the transcript msgs; Outcomes are the
\* outcomes a retrieve_memories call can have.  It sets the transcript, the
\* cache, the call counters and obs.
MessageAdded(msgs, Outcomes) ==
  LET guard == context_guard(msgs) IN
  IF guard # "query"
  THEN /\ obs' = [op |-> "retrieve_agent_context", before |-> msgs,
                  queried |-> <<>>, results |-> <<>>, fetch_raised |-> FALSE,
                  injected |-> FALSE,
                  raised |-> IF guard = "skip" THEN "none" ELSE guard]
       /\ messages' = msgs
       /\ UNCHANGED <<_namespaces, strategy_calls, strategy_fetch, retrieve_calls>>
  ELSE \E fetch_raises \in (IF _namespaces.is_none THEN BOOLEAN ELSE {FALSE}) :
         LET fetch    == [raises |-> fetch_raises, strategies |-> store_strategies]
             cache    == namespaces(_namespaces, fetch)
             relevant == get_relevant_namespaces(cache, actor_id)
             n        == IF relevant.ok THEN Len(relevant.val) ELSE 0
         IN  \E results \in [1..n -> Outcomes] :
               LET r == retrieve_agent_context(msgs, agent_type, relevant, results)
               IN  /\ messages' = r.messages
                   /\ _namespaces' = cache
                   /\ strategy_calls' = strategy_calls + (IF _namespaces.is_none THEN 1 ELSE 0)
                   /\ strategy_fetch' = IF ~_namespaces.is_none THEN strategy_fetch
                                        ELSE IF fetch_raises THEN "raised" ELSE "ok"
                   /\ retrieve_calls' = retrieve_calls + r.retrieves
                   /\ obs' = [op        |-> "retrieve_agent_context",
                              before    |-> msgs,
                              queried   |-> SubSeq(relevant.val, 1, r.retrieves),
                              results   |-> [i \in 1..r.retrieves |-> results[i]],
                              fetch_raised |-> fetch_raises,
                              injected  |-> r.injected,
                              raised    |-> "none"]

CallRetrieveAgentContext ==
  /\ pc = "ready"
  /\ MessageAdded(messages, RetrieveOutcomes)
  /\ pc' = IF obs'.raised = "none" THEN "returned" ELSE "raised"
  /\ UNCHANGED <<agent_type, actor_id, memory_id, storeVars, create_event_calls, turnVars,
                 clientVars>>

\* get_relevant_namespaces() called on the hook
CallGetRelevantNamespaces ==
  /\ pc \in {"ready", "returned"}
  /\ \E fetch_raises \in (IF _namespaces.is_none THEN BOOLEAN ELSE {FALSE}) :
       LET fetch == [raises |-> fetch_raises, strategies |-> store_strategies]
           cache == namespaces(_namespaces, fetch)
           rel   == get_relevant_namespaces(cache, actor_id)
       IN  /\ _namespaces' = cache
           /\ strategy_calls' = strategy_calls + (IF _namespaces.is_none THEN 1 ELSE 0)
           /\ strategy_fetch' = IF ~_namespaces.is_none THEN strategy_fetch
                                ELSE IF fetch_raises THEN "raised" ELSE "ok"
           /\ pc' = IF rel.ok THEN "listed" ELSE "raised"
           /\ obs' = [op     |-> "get_relevant_namespaces",
                      result |-> rel.val,
                      raised |-> IF rel.ok THEN "none" ELSE "KeyError"]
  /\ UNCHANGED <<agent_type, actor_id, memory_id, storeVars, messages, create_event_calls,
                 retrieve_calls, turnVars, clientVars>>

NextContext == CallRetrieveAgentContext \/ CallGetRelevantNamespaces

SpecContext == InitContext /\ [][NextContext]_vars

----------------------------------------------------------------------------
(* SpecSave: save_agent_interaction called on bounded transcripts           *)

\* the longest transcript handed to the callback
MaxMessages == 3

R_checking == <<"c","h","e","c","k","i","n","g">>

MessageShapes ==
  { UserText(Q_hi), UserText(<<>>), ToolResult, UserEmpty, UserImage,
    AssistantText(R_hello), AssistantText(<<>>), AssistantToolUse,
    AssistantTextToolUse(R_checking) }

SeqsUpTo(S, n) == UNION { [1..k -> S] : k \in 0..n }

SaveTranscripts == SeqsUpTo(MessageShapes, MaxMessages)

InitSave ==
  /\ InitHookOnly
  /\ agent_type \in AgentTypes
  /\ actor_id \in Actors
  /\ _namespaces = NoneNamespaces
  /\ store_strategies = DefaultStrategies
  /\ messages \in SaveTranscripts
  /\ events = <<>>
  /\ create_event_calls = <<>>
  /\ retrieve_calls = 0
  /\ strategy_calls = 0
  /\ strategy_fetch = "none"
  /\ pc = "ready"
  /\ prompt = <<>>
  /\ returned = <<>>
  /\ turn = 0
  /\ rounds = 0
  /\ obs = NoObs

\* The AfterInvocationEvent callback on the current transcript.  It sets the
\* call log, the store's events and obs.
AfterInvocation ==
  \E create_raises \in BOOLEAN :
    LET r == save_agent_interaction(messages, memory_id, actor_id, HookSessionId,
                                    agent_type, create_raises)
    IN  /\ create_raises => r.calls # <<>>
        /\ create_event_calls' = create_event_calls \o r.calls
        /\ events' = IF create_raises THEN events ELSE events \o r.calls
        /\ obs' = [op            |-> "save_agent_interaction",
                   before        |-> messages,
                   calls         |-> r.calls,
                   create_raised |-> create_raises,
                   raised        |-> r.raised]

CallSaveAgentInteraction ==
  /\ pc = "ready"
  /\ AfterInvocation
  /\ pc' = IF obs'.raised = "none" THEN "returned" ELSE "raised"
  /\ UNCHANGED <<hookVars, store_strategies, messages, retrieve_calls, strategy_calls,
                 strategy_fetch, turnVars, clientVars>>

NextSave == CallSaveAgentInteraction

SpecSave == InitSave /\ [][NextSave]_vars

----------------------------------------------------------------------------
(* SpecClient: the clients of one deployment, sharing the progress record   *)
(* and the external store                                                  *)

\* client operations called in one run
MaxClientOps == 3

\* response["id"] of the next successful create_memory_and_wait
NewMemoryId == "memory-" \o ToString(create_calls + 1)

\* what a create_memory_and_wait call can do
CreateOutcomes == { [raises |-> TRUE, id |-> None], [raises |-> FALSE, id |-> NewMemoryId] }

\* whether get_memory can raise for the id: it may always raise, and it
\* raises when the store holds no such memory
GetMemoryOutcomes(id) == IF id \in store_memories THEN BOOLEAN ELSE {TRUE}

\* the number of calls of get_or_create_memory in a row, this one included,
\* that client c made with a known id the store confirmed
StreakAfter(c, confirmed) ==
  IF ~confirmed THEN 0
  ELSE IF obs.op = "get_or_create_memory" /\ obs.client = c THEN obs.streak + 1
  ELSE 1

\* the state of the client, the progress record and the store after an
\* operation of client c with the effects r
ClientEffects(c, r) ==
  /\ _memory_id' = [_memory_id EXCEPT ![c] = r.cached]
  /\ progress' = r.progress
  /\ store_memories' = store_memories \cup r.created
  /\ create_calls' = create_calls + r.creates
  /\ client_ops' = client_ops + 1

\* client c calls get_or_create_memory()
GetOrCreateMemory(c) ==
  LET known == memory_id_get(_memory_id[c], progress) IN
  \E get_raises \in GetMemoryOutcomes(known), create \in CreateOutcomes :
    LET r == get_or_create_memory(_memory_id[c], progress, get_raises, create)
        confirmed == known # None /\ ~get_raises
    IN  /\ ClientEffects(c, r)
        /\ obs' = [op |-> "get_or_create_memory", client |-> c,
                   cached_before |-> _memory_id[c], progress_before |-> progress,
                   known |-> known, confirmed |-> confirmed,
                   create_raised |-> (r.creates > 0 /\ create.raises),
                   creates |-> r.creates, result |-> r.result, raised |-> r.raised,
                   streak |-> StreakAfter(c, confirmed),
                   first |-> IF StreakAfter(c, confirmed) > 1 THEN obs.first ELSE r.result]

\* client c calls create_multi_agent_memory()
CreateMultiAgentMemory(c) ==
  \E create \in CreateOutcomes :
    LET r == create_multi_agent_memory(_memory_id[c], progress, create) IN
    /\ ClientEffects(c, r)
    /\ obs' = [op |-> "create_multi_agent_memory", client |-> c,
               cached_before |-> _memory_id[c], progress_before |-> progress,
               create_raised |-> create.raises,
               creates |-> r.creates, result |-> r.result, raised |-> r.raised]

\* client c reads its memory_id property
ReadMemoryId(c) ==
  LET id == memory_id_get(_memory_id[c], progress) IN
  /\ ClientEffects(c, [cached |-> id, progress |-> progress, created |-> {}, creates |-> 0])
  /\ obs' = [op |-> "memory_id", client |-> c, result |-> id, raised |-> "none"]

\* client c calls cleanup_memory()
CleanupMemory(c) ==
  LET r == cleanup_memory(_memory_id[c], progress) IN
  /\ ClientEffects(c, r)
  /\ obs' = [op |-> "cleanup_memory", client |-> c,
             cached_before |-> _memory_id[c], progress_before |-> progress,
             result |-> r.result, raised |-> r.raised]

\* the external store loses a memory (deleted or expired outside the clients)
MemoryDeleted ==
  /\ \E id \in store_memories : store_memories' = store_memories \ {id}
  /\ obs' = [op |-> "memory_deleted"]
  /\ UNCHANGED <<_memory_id, progress, create_calls, client_ops>>

InitClient ==
  /\ InitClientVars
  /\ memory_id = None
  /\ agent_type = A_Orchestrator
  /\ actor_id = Actor_001
  /\ _namespaces = NoneNamespaces
  /\ store_strategies = DefaultStrategies
  /\ messages = <<>>
  /\ events = <<>>
  /\ create_event_calls = <<>>
  /\ retrieve_calls = 0
  /\ strategy_calls = 0
  /\ strategy_fetch = "none"
  /\ pc = "client"
  /\ prompt = <<>>
  /\ returned = <<>>
  /\ answer = <<>>
  /\ turn = 0
  /\ rounds = 0
  /\ obs = NoObs

ClientUnchanged ==
  UNCHANGED <<hookVars, store_strategies, events, messages, callVars, pc, turnVars>>

ClientCallsGetOrCreateMemory ==
  /\ client_ops < MaxClientOps
  /\ \E c \in Clients : GetOrCreateMemory(c)
  /\ ClientUnchanged

ClientCallsCreateMultiAgentMemory ==
  /\ client_ops < MaxClientOps
  /\ \E c \in Clients : CreateMultiAgentMemory(c)
  /\ ClientUnchanged

ClientReadsMemoryId ==
  /\ client_ops < MaxClientOps
  /\ \E c \in Clients : ReadMemoryId(c)
  /\ ClientUnchanged

ClientCallsCleanupMemory ==
  /\ client_ops < MaxClientOps
  /\ \E c \in Clients : CleanupMemory(c)
  /\ ClientUnchanged

StoreDeletesMemory ==
  /\ MemoryDeleted
  /\ ClientUnchanged

NextClient ==
  \/ ClientCallsGetOrCreateMemory
  \/ ClientCallsCreateMultiAgentMemory
  \/ ClientReadsMemoryId
  \/ ClientCallsCleanupMemory
  \/ StoreDeletesMemory

SpecClient == InitClient /\ [][NextClient]_vars

----------------------------------------------------------------------------
(* SpecDeploy: the agent processes of one deployment starting up, each    *)
(* with its own client, sharing the progress record and the external store. *)
(* Here pc and memory_id hold one value for each process.                   *)

InitDeploy ==
  /\ InitClientVars
  /\ memory_id = [c \in Clients |-> None]
  /\ pc = [c \in Clients |-> "start"]
  /\ agent_type = A_Orchestrator
  /\ actor_id = Actor_001
  /\ _namespaces = NoneNamespaces
  /\ store_strategies = DefaultStrategies
  /\ messages = <<>>
  /\ events = <<>>
  /\ create_event_calls = <<>>
  /\ retrieve_calls = 0
  /\ strategy_calls = 0
  /\ strategy_fetch = "none"
  /\ prompt = <<>>
  /\ returned = <<>>
  /\ answer = <<>>
  /\ turn = 0
  /\ rounds = 0
  /\ obs = NoObs

DeployUnchanged ==
  UNCHANGED <<agent_type, actor_id, _namespaces, store_strategies, events, messages,
              callVars, turnVars>>

\* process c enters get_or_create_memory: it reads its memory_id and, when
\* there is one, asks the store for it; a confirmed id is returned and the
\* hook is made with it, otherwise the process goes on to create a memory
CheckExisting(c) ==
  /\ pc[c] = "start"
  /\ LET known == memory_id_get(_memory_id[c], progress) IN
     \E get_raises \in GetMemoryOutcomes(known) :
       LET confirmed == known # None /\ ~get_raises IN
       /\ _memory_id' = [_memory_id EXCEPT ![c] = known]
       /\ pc' = [pc EXCEPT ![c] = IF confirmed THEN "done" ELSE "create"]
       /\ memory_id' = [memory_id EXCEPT ![c] = IF confirmed THEN known ELSE @]
       /\ obs' = [op |-> "get_memory", client |-> c, known |-> known,
                  confirmed |-> confirmed]
  /\ UNCHANGED <<progress, store_memories, create_calls, client_ops>>
  /\ DeployUnchanged

\* process c, still in get_or_create_memory, calls create_multi_agent_memory:
\* the new id is cached, persisted and returned, or the exception ends the
\* process
CreateMemory(c) ==
  /\ pc[c] = "create"
  /\ \E create \in CreateOutcomes :
       LET r == create_multi_agent_memory(_memory_id[c], progress, create) IN
       /\ ClientEffects(c, r)
       /\ pc' = [pc EXCEPT ![c] = IF r.raised = "none" THEN "done" ELSE "aborted"]
       /\ memory_id' = [memory_id EXCEPT ![c] = IF r.raised = "none" THEN r.result ELSE @]
       /\ obs' = [op |-> "create_multi_agent_memory", client |-> c,
                  cached_before |-> _memory_id[c], progress_before |-> progress,
                  create_raised |-> create.raises,
                  creates |-> r.creates, result |-> r.result, raised |-> r.raised]
  /\ DeployUnchanged

\* process c is started again: a new client, with an unset cache
Restart(c) ==
  /\ pc[c] \in {"done", "aborted"}
  /\ client_ops < MaxClientOps
  /\ pc' = [pc EXCEPT ![c] = "start"]
  /\ memory_id' = [memory_id EXCEPT ![c] = None]
  /\ _memory_id' = [_memory_id EXCEPT ![c] = None]
  /\ obs' = [op |-> "restart", client |-> c]
  /\ UNCHANGED <<progress, store_memories, create_calls, client_ops>>
  /\ DeployUnchanged

ProcessChecksExisting == \E c \in Clients : CheckExisting(c)
ProcessCreatesMemory == \E c \in Clients : CreateMemory(c)
ProcessRestarts == \E c \in Clients : Restart(c)

NextDeploy ==
  \/ ProcessChecksExisting
  \/ ProcessCreatesMemory
  \/ ProcessRestarts
  \/ StoreDeletesMemory

SpecDeploy == InitDeploy /\ [][NextDeploy]_vars

----------------------------------------------------------------------------
(* Spec: one runtime process, from start-up through its turns              *)

\* turns served by the process, and tool calls the model makes in a turn
MaxTurns == 1
MaxToolRounds == 1

\* payload.get("prompt", "")
Prompts == { Q_battery, <<>> }

\* the text of the model's final message
Answers == { R_hello }

\* what a retrieve_memories call can do during a turn
TurnOutcomes == { Raises, Returns(<<>>), Returns(<< Memory(X_BatteryInfo) >>) }

Init ==
  /\ InitClientVars
  /\ memory_id = None
  /\ agent_type \in {A_Orchestrator, A_KnowledgeBase}
  /\ actor_id = Actor_001
  /\ _namespaces = NoneNamespaces
  /\ store_strategies = DefaultStrategies
  /\ messages = <<>>
  /\ events = <<>>
  /\ create_event_calls = <<>>
  /\ retrieve_calls = 0
  /\ strategy_calls = 0
  /\ strategy_fetch = "none"
  /\ pc = "startup"
  /\ prompt = <<>>
  /\ returned = <<>>
  /\ answer = <<>>
  /\ turn = 0
  /\ rounds = 0
  /\ obs = NoObs

\* module start-up of the runtime: memory_id = create_or_get_multi_agent_memory()
\* and the hook made with it; an exception ends the process
Startup ==
  /\ pc = "startup"
  /\ GetOrCreateMemory(1)
  /\ pc' = IF obs'.raised = "none" THEN "idle" ELSE "aborted"
  /\ memory_id' = IF obs'.raised = "none" THEN obs'.result ELSE memory_id
  /\ UNCHANGED <<agent_type, actor_id, _namespaces, store_strategies, events, messages,
                 callVars, turnVars>>

\* the agent appends message m to its transcript and fires MessageAddedEvent;
\* an exception leaving the callback leaves the agent call
AppendMessage(m, next_pc) ==
  /\ MessageAdded(Append(messages, m), TurnOutcomes)
  /\ pc' = IF obs'.raised = "none" THEN next_pc ELSE "failed"

\* invoke(payload): the agent is called with the prompt
Invoke ==
  /\ pc \in {"idle", "done"}
  /\ turn < MaxTurns
  /\ \E p \in Prompts :
       /\ prompt' = p
       /\ AppendMessage(UserText(p), "model")
  /\ turn' = turn + 1
  /\ rounds' = 0
  /\ answer' = <<>>
  /\ returned' = <<>>
  /\ UNCHANGED <<agent_type, actor_id, memory_id, storeVars, create_event_calls, clientVars>>

\* the model asks for a tool
ModelCallsTool ==
  /\ pc = "model"
  /\ rounds < MaxToolRounds
  /\ AppendMessage(AssistantToolUse, "tool")
  /\ rounds' = rounds + 1
  /\ UNCHANGED <<agent_type, actor_id, memory_id, storeVars, create_event_calls, clientVars,
                 prompt, returned, answer, turn>>

\* the tool's result is added as a user message
ToolReturns ==
  /\ pc = "tool"
  /\ AppendMessage(ToolResult, "model")
  /\ UNCHANGED <<agent_type, actor_id, memory_id, storeVars, create_event_calls, clientVars,
                 turnVars>>

\* the model gives its final message
ModelAnswers ==
  /\ pc = "model"
  /\ \E a \in Answers :
       /\ answer' = a
       /\ AppendMessage(AssistantText(a), "answered")
  /\ UNCHANGED <<agent_type, actor_id, memory_id, storeVars, create_event_calls, clientVars,
                 prompt, returned, turn, rounds>>

\* AfterInvocationEvent fires, the agent call returns and invoke returns
\* response.message["content"][0]["text"]
AgentReturns ==
  /\ pc = "answered"
  /\ AfterInvocation
  /\ pc' = IF obs'.raised = "none" THEN "done" ELSE "failed"
  /\ returned' = IF obs'.raised = "none" THEN messages[Len(messages)].content[1].text
                 ELSE returned
  /\ UNCHANGED <<hookVars, store_strategies, messages, retrieve_calls, strategy_calls,
                 strategy_fetch, prompt, answer, turn, rounds, clientVars>>

Next ==
  \/ Startup
  \/ Invoke
  \/ ModelCallsTool
  \/ ToolReturns
  \/ ModelAnswers
  \/ AgentReturns

\* a started process finishes its start-up, and a turn in progress is run on:
\* the tool returns, the model answers, the agent call returns
Fairness ==
  /\ WF_vars(Startup)
  /\ WF_vars(ToolReturns)
  /\ WF_vars(ModelAnswers)
  /\ WF_vars(AgentReturns)

Spec == Init /\ [][Next]_vars /\ Fairness

----------------------------------------------------------------------------
(* Claims about the hook's lookups, checked under SpecContext              *)

Last(seq) == seq[Len(seq)]
Range(seq) == {seq[i] : i \in 1..Len(seq)}

\* the snippets a finished retrieve_agent_context call got back, in retrieval
\* order: the whitespace-trimmed, non-empty texts of the well-formed memories,
\* each with the namespace it came from
RECURSIVE SnippetsOf(_, _)
SnippetsOf(namespace, memories) ==
  IF memories = <<>> THEN <<>>
  ELSE LET m == Head(memories)
       IN  (IF m.shape = "ok" /\ str_strip(m.text) # <<>>
            THEN << [namespace |-> namespace, snippet |-> str_strip(m.text)] >>
            ELSE <<>>) \o SnippetsOf(namespace, Tail(memories))

RECURSIVE RetrievedFrom(_, _, _)
RetrievedFrom(queried, results, i) ==
  IF i > Len(queried) THEN <<>>
  ELSE SnippetsOf(queried[i], results[i].memories) \o RetrievedFrom(queried, results, i + 1)

Retrieved == RetrievedFrom(obs.queried, obs.results, 1)

NoRetrievalRaised == \A i \in 1..Len(obs.results) : ~obs.results[i].raises

SecondSegment(namespace) == str_split(namespace, "/")[2]

\* "[<LABEL>] <snippet>" and a line end, for each snippet in turn; labels[i]
\* is the label of the i-th snippet
RECURSIVE LabelledLines(_, _)
LabelledLines(snippets, labels) ==
  IF snippets = <<>> THEN <<>>
  ELSE <<"[">> \o Head(labels) \o <<"]", " ">> \o Head(snippets).snippet
         \o <<"\n">> \o LabelledLines(Tail(snippets), Tail(labels))

RewrittenText(agent, snippets, labels, original) ==
  <<"A","g","e","n","t"," ","C","o","n","t","e","x","t"," ","(">> \o agent \o <<")",":","\n">>
    \o LabelledLines(snippets, labels) \o <<"\n">> \o original

UpperSecondSegments(snippets) ==
  [i \in 1..Len(snippets) |-> str_upper(SecondSegment(snippets[i].namespace))]

CalledOnUserQuery ==
  /\ obs.op = "retrieve_agent_context"
  /\ context_guard(obs.before) = "query"

\* C1: when the last message is a genuine user message and at least one
\* non-empty snippet is retrieved, its text becomes "Agent Context (<agent_type>):"
\* and a line end, one line "[<LABEL>] <snippet>" per snippet in retrieval order,
\* LABEL the upper-cased second path segment of the snippet's namespace, a blank
\* line, and the original text; nothing else of the transcript changes.
C1_ContextInjected ==
  (CalledOnUserQuery /\ NoRetrievalRaised /\ Retrieved # <<>>)
    => /\ obs.raised = "none"
       /\ messages = set_last_text(obs.before,
                       RewrittenText(agent_type, Retrieved, UpperSecondSegments(Retrieved),
                                     Last(obs.before).content[1].text))

\* C1 witness: snippets of two namespaces were injected, one of them trimmed
C1_Witness ==
  /\ CalledOnUserQuery /\ NoRetrievalRaised
  /\ Len(Retrieved) >= 2
  /\ Retrieved[1].namespace # Last(Retrieved).namespace
  /\ \E i \in 1..Len(obs.results) : Memory(X_padded) \in Range(obs.results[i].memories)
  /\ Len(obs.before) > 1
  /\ obs.injected

SemanticNamespace(actor) ==
  <<"s","u","p","p","o","r","t","/","c","u","s","t","o","m","e","r","/">> \o actor
    \o <<"/","s","e","m","a","n","t","i","c">>

\* the backend returned exactly one snippet, from the semantic namespace, and
\* nothing from any other namespace
OneSemanticSnippet ==
  /\ CalledOnUserQuery /\ NoRetrievalRaised
  /\ Len(Retrieved) = 1
  /\ Retrieved[1].namespace = SemanticNamespace(actor_id)
  /\ \A i \in 1..Len(obs.results) :
       IF obs.queried[i] = SemanticNamespace(actor_id)
       THEN Len(obs.results[i].memories) = 1
       ELSE obs.results[i].memories = <<>>

SemanticLabel == <<"S","E","M","A","N","T","I","C">>
CustomerLabel == <<"C","U","S","T","O","M","E","R">>

\* C2 as stated: with one snippet S from support/customer/<actor>/semantic and
\* nothing else, the rewritten text is
\* "Agent Context (<agent_type>):\n[SEMANTIC] S\n\nT".
C2_SemanticLabel ==
  OneSemanticSnippet
    => Last(messages).content[1].text
         = RewrittenText(agent_type, Retrieved, <<SemanticLabel>>,
                         Last(obs.before).content[1].text)

\* C2 amended: with one snippet from support/customer/<actor>/semantic whose
\* trimmed text S is not empty, and nothing else, the rewritten text is
\* "Agent Context (<agent_type>):\n[CUSTOMER] S\n\nT".
C2_CustomerLabel ==
  OneSemanticSnippet
    => Last(messages).content[1].text
         = RewrittenText(agent_type, Retrieved, <<CustomerLabel>>,
                         Last(obs.before).content[1].text)

\* C2 witness: the one snippet came from the semantic namespace of a store that
\* also has the preferences namespace, for a hook that is none of the three
C2_Witness ==
  /\ OneSemanticSnippet
  /\ Len(obs.queried) = 2
  /\ agent_type = A_Other
  /\ actor_id = Actor_002
  /\ obs.injected

\* C5: if any retrieve_memories call raises, the first or a later one, the
\* callback returns without raising and leaves the transcript as it was, also
\* when earlier namespaces had already given snippets.
C5_RetrievalFailureLeavesMessage ==
  (CalledOnUserQuery /\ ~NoRetrievalRaised)
    => /\ obs.raised = "none"
       /\ pc = "returned"
       /\ messages = obs.before

\* C5 witness: the second call raised after the first had returned a snippet
C5_Witness ==
  /\ CalledOnUserQuery
  /\ Len(obs.results) = 2
  /\ obs.results[2].raises
  /\ Retrieved # <<>>
  /\ pc = "returned"

\* the customer-scoped templates of strategy, instantiated with actor
CustomerScoped(template) ==
  LET parts == str_split(template, "/")
  IN  Len(parts) > 1 /\ parts[2] = <<"c","u","s","t","o","m","e","r">>

CustomerNamespacesOf(strategy, actor) ==
  { str_format(t, actor).val : t \in {u \in Range(strategy.namespaces) : CustomerScoped(u)} }

ListedNamespaces == obs.op = "get_relevant_namespaces"

\* C8 as stated: for every agent type and every strategy set of the store,
\* get_relevant_namespaces() returns a list that contains every customer-scoped
\* namespace of the store, instantiated with the hook's actor id.
C8_EveryCustomerNamespace ==
  ListedNamespaces
    => /\ obs.raised = "none"
       /\ \A i \in 1..Len(store_strategies) :
            CustomerNamespacesOf(store_strategies[i], actor_id) \subseteq Range(obs.result)

\* strategy i is the last of its type in the store's list
LastOfItsType(i) ==
  \A j \in (i + 1)..Len(store_strategies) : store_strategies[j].type # store_strategies[i].type

\* C8 amended: for every agent type and every strategy set, once the hook's one
\* get_memory_strategies call has succeeded the list contains every
\* customer-scoped namespace of each strategy that is the last of its type in
\* the store's list (all strategies, when the types differ), instantiated with
\* the hook's actor id; when that call raised, the list is empty.
C8_CustomerNamespacesOfCache ==
  ListedNamespaces
    => /\ obs.raised = "none"
       /\ strategy_fetch = "ok"
            => \A i \in 1..Len(store_strategies) :
                 LastOfItsType(i)
                   => CustomerNamespacesOf(store_strategies[i], actor_id) \subseteq Range(obs.result)
       /\ strategy_fetch = "raised" => obs.result = <<>>

\* C8 witness: a hook that is none of the three lists the customer namespace of
\* a store whose strategies also hold other scopes
C8_Witness ==
  /\ ListedNamespaces
  /\ strategy_fetch = "ok"
  /\ agent_type = A_Other
  /\ \E i \in 1..Len(store_strategies) : T_routing \in Range(store_strategies[i].namespaces)
  /\ obs.result = << SemanticNamespace(actor_id) >>

----------------------------------------------------------------------------
(* Claims about save_agent_interaction, checked under SpecSave              *)

Saved == obs.op = "save_agent_interaction"

\* a user message that is not a tool-result echo
GenuineUser(m) ==
  /\ m.role = "user"
  /\ ~(m.content # <<>> /\ "toolResult" \in DOMAIN m.content[1])

HasText(m) ==
  /\ m.content # <<>>
  /\ "text" \in DOMAIN m.content[1]
  /\ m.content[1].text # <<>>

\* the position of the genuine user message nearest before position i (0: none)
NearestUserBefore(msgs, i) ==
  LET before == {k \in 1..(i - 1) : GenuineUser(msgs[k])}
  IN  IF before = {} THEN 0 ELSE CHOOSE k \in before : \A j \in before : j <= k

\* the transcript ends in an assistant message with non-empty text that a
\* genuine user message with non-empty text precedes
EndsInAnsweredQuery(msgs) ==
  /\ msgs # <<>>
  /\ Last(msgs).role = "assistant"
  /\ HasText(Last(msgs))
  /\ NearestUserBefore(msgs, Len(msgs)) > 0
  /\ HasText(msgs[NearestUserBefore(msgs, Len(msgs))])

\* C3: for a transcript ending in an assistant message with non-empty text R
\* that a genuine user message with non-empty text U precedes, exactly one
\* create_event call is made, under the hook's memory, actor and session ids,
\* with the messages (U, "USER") and ("[<agent_type>] R", "ASSISTANT") in order.
C3_OneEventPerExchange ==
  (Saved /\ EndsInAnsweredQuery(obs.before))
    => LET U == obs.before[NearestUserBefore(obs.before, Len(obs.before))].content[1].text
           R == Last(obs.before).content[1].text
       IN  obs.calls =
             << [memory_id  |-> memory_id,
                 actor_id   |-> actor_id,
                 session_id |-> HookSessionId,
                 messages   |-> << <<U, "USER">>,
                                   <<(<<"[">> \o agent_type \o <<"]", " ">> \o R), "ASSISTANT">> >>] >>

\* C3 witness: the answer closes a tool exchange, and the event reached the store
C3_Witness ==
  /\ Saved
  /\ obs.before = << UserText(Q_hi), ToolResult, AssistantText(R_hello) >>
  /\ Len(events) = 1
  /\ events = obs.calls

\* C6: for every transcript, empty and malformed ones included, and whether
\* create_event succeeds or raises, save_agent_interaction returns normally;
\* when the transcript has no genuine user message or no assistant message, no
\* create_event call is made.
C6_SaveNeverRaises ==
  Saved
    => /\ obs.raised = "none"
       /\ pc = "returned"
       /\ ((\A i \in 1..Len(obs.before) : ~GenuineUser(obs.before[i]))
            \/ (\A i \in 1..Len(obs.before) : obs.before[i].role # "assistant"))
           => obs.calls = <<>>

\* C6 witness: the create_event call raised, on a transcript that starts with
\* a malformed message
C6_Witness ==
  /\ Saved
  /\ obs.before = << UserEmpty, UserText(Q_hi), AssistantText(R_hello) >>
  /\ obs.create_raised
  /\ Len(obs.calls) = 1
  /\ events = <<>>
  /\ pc = "returned"

----------------------------------------------------------------------------
(* Claims about the memory client, checked under SpecClient                *)

GotOrCreated == obs.op = "get_or_create_memory"

\* C9: when a memory id is known (cached, or in the progress record) and
\* get_memory confirms it, get_or_create_memory makes no create_memory_and_wait
\* call, raises nothing and returns that id; every call of a row of such calls
\* returns the id the first one returned.
C9_KnownIdIsReused ==
  GotOrCreated /\ obs.confirmed
    => /\ obs.creates = 0
       /\ obs.raised = "none"
       /\ obs.result = obs.known
       /\ obs.result = obs.first
       /\ progress = obs.progress_before

\* C9 witness: the third call in a row on the id of an earlier run, read from
\* the progress record
C9_Witness ==
  /\ GotOrCreated
  /\ obs.confirmed
  /\ obs.streak = 3
  /\ obs.result = OldMemoryId
  /\ create_calls = 0

CreateFailed ==
  /\ obs.op \in {"get_or_create_memory", "create_multi_agent_memory"}
  /\ obs.create_raised

\* C10 as stated: after a failed create, one create call was made, the
\* exception left the operation, and the client's _memory_id and the persisted
\* setup_status.memory_id are what they were before the call.
C10_CacheFieldUnchanged ==
  CreateFailed
    => /\ obs.creates = 1
       /\ obs.raised # "none"
       /\ progress = obs.progress_before
       /\ _memory_id[obs.client] = obs.cached_before

\* C10: after a failed create, one create call was made, the exception left
\* the operation, the progress record is what it was, and the client's
\* memory_id property returns what it returned before: _memory_id is unchanged,
\* or it was unset and get_or_create_memory loaded the persisted id into it.
C10_CreateFailurePropagates ==
  CreateFailed
    => /\ obs.creates = 1
       /\ obs.raised # "none"
       /\ progress = obs.progress_before
       /\ memory_id_get(_memory_id[obs.client], progress)
            = memory_id_get(obs.cached_before, obs.progress_before)
       /\ \/ _memory_id[obs.client] = obs.cached_before
          \/ /\ obs.op = "get_or_create_memory"
             /\ obs.cached_before = None
             /\ _memory_id[obs.client] = persisted_memory_id(obs.progress_before)

\* C10 witness: the persisted id is stale, get_memory raised for it, and the
\* create that followed raised too
C10_Witness ==
  /\ CreateFailed
  /\ GotOrCreated
  /\ obs.known = OldMemoryId
  /\ obs.cached_before = None
  /\ obs.raised = "ClientError"
  /\ store_memories = {}

----------------------------------------------------------------------------
(* Claims about a whole turn, checked under Spec                           *)

TurnDone == pc = "done"

\* the event the turn's save callback sent to the store
TurnPersisted == TurnDone /\ obs.op = "save_agent_interaction" /\ obs.calls # <<>>

\* the first user message of the current turn was rewritten with context
TurnInjected == messages[Len(messages) - 1 - 2 * rounds].content[1].text # prompt

\* C4: the event persisted when a turn completes has the prompt, as invoke
\* received it, as its USER text and "[agent_type] answer" as its ASSISTANT
\* text, also when the pre-processing callback injected context.
C4_PersistsPromptAsReceived ==
  TurnPersisted
    => obs.calls[1].messages = << <<prompt, "USER">>,
                                  <<enhanced_response(agent_type, answer), "ASSISTANT">> >>

\* what the code persists instead: the text of the user message as the
\* pre-processing callback left it
C4_PersistsRewrittenMessage ==
  TurnPersisted
    => obs.calls[1].messages
         = << <<messages[Len(messages) - 1 - 2 * rounds].content[1].text, "USER">>,
              <<enhanced_response(agent_type, answer), "ASSISTANT">> >>

C4_Witness == TurnPersisted /\ TurnInjected /\ events # <<>>

InTurn == pc \in {"model", "tool", "answered"}

\* C7: no exception leaves a callback of the hook during a turn, whichever of
\* get_memory_strategies, retrieve_memories and create_event raise; a turn in
\* progress reaches completion, with invoke returning the model's answer; and
\* the process is aborted only by a raising create_memory_and_wait at start-up.
C7_TurnCompletes ==
  /\ [](pc # "failed")
  /\ [](pc = "aborted" => obs.op = "get_or_create_memory" /\ obs.create_raised)
  /\ [](TurnDone => returned = answer /\ answer \in Answers)
  /\ (InTurn ~> TurnDone)

\* C7 witness: a completed turn in which the first retrieve_memories call
\* raised (one call for two namespaces) and create_event raised
C7_Witness ==
  /\ TurnDone
  /\ returned = R_hello
  /\ strategy_fetch = "ok"
  /\ retrieve_calls = 1
  /\ obs.op = "save_agent_interaction"
  /\ obs.create_raised
  /\ events = <<>>

ReturnedId == GotOrCreated /\ obs.raised = "none"

\* C11: after every successful return of get_or_create_memory, on the reuse
\* path or the create path, the persisted setup_status.memory_id is the
\* returned id.
C11_PersistedIsReturned ==
  ReturnedId => persisted_memory_id(progress) = obs.result

\* what the code keeps: after a successful return the client's cache holds the
\* returned id, and the persisted id is the returned id whenever the call
\* created the memory or started from an unset cache
C11_PersistedAfterCreateOrLoad ==
  ReturnedId
    => /\ _memory_id[obs.client] = obs.result
       /\ (obs.creates = 1 \/ obs.cached_before = None)
            => persisted_memory_id(progress) = obs.result

----------------------------------------------------------------------------
(* Claims about a deployment, checked under SpecDeploy                     *)

\* the processes that finished start-up and serve turns
Serving == { c \in Clients : pc[c] = "done" }

\* C12: in every reachable state of a deployment all serving processes use
\* one memory id, also when they run get_or_create_memory concurrently with no
\* id persisted and when the existence check of a persisted id raises.
C12_OneActiveMemory ==
  \A c, d \in Serving : memory_id[c] = memory_id[d]

\* what holds: a serving process uses a memory the store was asked to create
\* or confirmed, and the progress record holds the id of the last create
C12_ServingUsesStoredMemory ==
  /\ \A c \in Serving : memory_id[c] # None /\ memory_id[c] = _memory_id[c]
  /\ create_calls > 0 /\ obs.op = "create_multi_agent_memory" /\ obs.raised = "none"
       => persisted_memory_id(progress) = obs.result

----------------------------------------------------------------------------
(* MultiAgentMemoryClient.get_cross_agent_context                          *)

S_support_slash == <<"s","u","p","p","o","r","t","/">>
S_slash == <<"/">>
S_underscore == <<"_">>
S_orchestrator == <<"o","r","c","h","e","s","t","r","a","t","o","r">>
S_technical == <<"t","e","c","h","n","i","c","a","l">>
S_preferences == <<"p","r","e","f","e","r","e","n","c","e","s">>
S_semantic == <<"s","e","m","a","n","t","i","c">>
S_routing == <<"r","o","u","t","i","n","g">>
S_solutions == <<"s","o","l","u","t","i","o","n","s">>

\* agent_types or ["customer", "orchestrator", "technical"]
DefaultCrossTypes == << S_customer, S_orchestrator, S_technical >>

\* context[key] = value on the dict, kept as its items in insertion order
context_set(items, key, value) ==
  IF \E i \in 1..Len(items) : items[i].key = key
  THEN [i \in 1..Len(items) |->
          IF items[i].key = key THEN [key |-> key, value |-> value] ELSE items[i]]
  ELSE Append(items, [key |-> key, value |-> value])

\* the list comprehension over the memories of one retrieval: the texts of
\* the dict memories with a non-empty text, unstripped; a dict memory whose
\* content is not a dict raises AttributeError
RECURSIVE cross_texts(_)
cross_texts(memories) ==
  IF memories = <<>> THEN [ok |-> TRUE, val |-> <<>>]
  ELSE LET m    == Head(memories)
           rest == cross_texts(Tail(memories))
       IN  IF m.shape = "content_not_dict" THEN [ok |-> FALSE, val |-> <<>>]
           ELSE IF ~rest.ok THEN rest
           ELSE IF m.shape = "ok" /\ m.text # <<>>
           THEN [ok |-> TRUE, val |-> <<m.text>> \o rest.val]
           ELSE rest

\* f"support/{agent_type}/{actor_id}/{subtype}"
full_namespace(agent, actor, subtype) ==
  S_support_slash \o agent \o S_slash \o actor \o S_slash \o subtype

\* the inner loop over the subtypes of "customer", from subtype i: the context
\* and the namespaces queried, and whether an exception left the loop
RECURSIVE cross_customer(_, _, _, _, _)
cross_customer(context, actor, backend, subtypes, i) ==
  IF i > Len(subtypes) THEN [ok |-> TRUE, context |-> context, queried |-> <<>>]
  ELSE LET ns    == full_namespace(S_customer, actor, subtypes[i])
           out   == backend[ns]
           texts == cross_texts(out.memories)
       IN  IF out.raises \/ ~texts.ok
           THEN [ok |-> FALSE, context |-> context, queried |-> <<ns>>]
           ELSE LET rest == cross_customer(
                              context_set(context, S_customer \o S_underscore \o subtypes[i],
                                          texts.val),
                              actor, backend, subtypes, i + 1)
                IN  [ok |-> rest.ok, context |-> rest.context,
                     queried |-> <<ns>> \o rest.queried]

\* one iteration of the loop over agent_types: the try block and its except
cross_agent_type(context, agent, actor, backend) ==
  IF agent = S_customer
  THEN LET r == cross_customer(context, actor, backend, <<S_preferences, S_semantic>>, 1)
       IN  [context |-> IF r.ok THEN r.context ELSE context_set(r.context, agent, <<>>),
            queried |-> r.queried]
  ELSE LET subtype == IF agent = S_orchestrator THEN S_routing ELSE S_solutions
           ns      == full_namespace(agent, actor, subtype)
           out     == backend[ns]
           texts   == cross_texts(out.memories)
       IN  [context |-> IF out.raises \/ ~texts.ok
                        THEN context_set(context, agent, <<>>)
                        ELSE context_set(context, agent, texts.val),
            queried |-> <<ns>>]

RECURSIVE cross_agent_types(_, _, _, _, _)
cross_agent_types(context, agent_types, actor, backend, i) ==
  IF i > Len(agent_types) THEN [context |-> context, queried |-> <<>>]
  ELSE LET one  == cross_agent_type(context, agent_types[i], actor, backend)
           rest == cross_agent_types(one.context, agent_types, actor, backend, i + 1)
       IN  [context |-> rest.context, queried |-> one.queried \o rest.queried]

\* get_cross_agent_context(actor_id, query, agent_types): known is
\* self.memory_id, agent_types <<>> stands for None and for the empty list,
\* backend[ns] is what retrieve_memories does for namespace ns.  The dict
\* returned, as its items, and the namespaces queried.
get_cross_agent_context(known, actor, agent_types, backend) ==
  IF known = None THEN [context |-> <<>>, queried |-> <<>>, raised |-> "none"]
  ELSE LET r == cross_agent_types(<<>>, IF agent_types = <<>> THEN DefaultCrossTypes
                                        ELSE agent_types, actor, backend, 1)
       IN  [context |-> r.context, queried |-> r.queried, raised |-> "none"]

----------------------------------------------------------------------------
(* SpecRetrieve: the retrieval operations of the client and of the         *)
(* specialised hooks, called on bounded backend outcomes                    *)

\* the subtypes get_cross_agent_context queries for an agent type
cross_subtypes(agent) ==
  IF agent = S_customer THEN <<S_preferences, S_semantic>>
  ELSE IF agent = S_orchestrator THEN <<S_routing>>
  ELSE <<S_solutions>>

\* agent_types arguments: None, and lists of known types in several orders
CrossTypeLists ==
  { <<>>, <<S_customer>>, <<S_orchestrator>>, <<S_technical, S_customer>>,
    <<S_customer, S_orchestrator, S_customer>> }

\* the namespaces a call can query for the actor
CrossNamespaces(actor) ==
  UNION { { full_namespace(t, actor, cross_subtypes(t)[i]) : i \in 1..Len(cross_subtypes(t)) } :
            t \in {S_customer, S_orchestrator, S_technical} }

CrossOutcomes ==
  { Raises, Returns(<<>>), Returns(<< Memory(X_BatteryInfo) >>),
    Returns(<< Memory(X_padded), MemoryNoText >>), Returns(<< MemoryContentNotDict >>) }

InitRetrieve ==
  /\ memory_id = OldMemoryId
  /\ _memory_id = [c \in Clients |-> None]
  /\ progress \in {NoProgress, memory_id_set(NoProgress, OldMemoryId)}
  /\ store_memories = {OldMemoryId}
  /\ create_calls = 0
  /\ client_ops = 0
  /\ answer = <<>>
  /\ agent_type \in {A_Orchestrator, A_CustomerSupport, A_KnowledgeBase}
  /\ actor_id \in Actors
  /\ _namespaces = NoneNamespaces
  /\ store_strategies = DefaultStrategies
  /\ messages = <<>>
  /\ events = <<>>
  /\ create_event_calls = <<>>
  /\ retrieve_calls = 0
  /\ strategy_calls = 0
  /\ strategy_fetch = "none"
  /\ pc = "ready"
  /\ prompt = <<>>
  /\ returned = <<>>
  /\ turn = 0
  /\ rounds = 0
  /\ obs = NoObs

\* client 1 calls get_cross_agent_context(actor_id, query, agent_types)
CallGetCrossAgentContext ==
  /\ pc = "ready"
  /\ LET known == memory_id_get(_memory_id[1], progress) IN
     \E agent_types \in CrossTypeLists :
       \E backend \in [CrossNamespaces(actor_id) -> CrossOutcomes] :
         LET r == get_cross_agent_context(known, actor_id, agent_types, backend) IN
         /\ _memory_id' = [_memory_id EXCEPT ![1] = known]
         /\ retrieve_calls' = retrieve_calls + Len(r.queried)
         /\ pc' = IF r.raised = "none" THEN "returned" ELSE "raised"
         /\ obs' = [op |-> "get_cross_agent_context", known |-> known,
                    agent_types |-> IF agent_types = <<>> THEN DefaultCrossTypes
                                    ELSE agent_types,
                    backend |-> backend, context |-> r.context,
                    queried |-> r.queried, raised |-> r.raised]
  /\ UNCHANGED <<agent_type, actor_id, memory_id, _namespaces, storeVars, messages,
                 create_event_calls, strategy_calls, strategy_fetch, turnVars,
                 progress, store_memories, create_calls, client_ops>>

lower_char(c) ==
  IF \E i \in 1..Len(Uppers) : Uppers[i] = c
  THEN Lowers[CHOOSE i \in 1..Len(Uppers) : Uppers[i] = c]
  ELSE c

\* str.lower()
str_lower(s) == [i \in 1..Len(s) |-> lower_char(s[i])]

S_routing_decision == <<"r","o","u","t","i","n","g"," ","d","e","c","i","s","i","o","n">>
S_technical_solution == <<"t","e","c","h","n","i","c","a","l"," ","s","o","l","u","t","i","o","n">>

\* content.get("text", "").strip() of each memory that passes both isinstance
\* guards, in order (the others do not reach the test on the text)
stripped_texts(memories) ==
  LET ok == SelectSeq(memories, LAMBDA m : m.shape = "ok" \/ m.shape = "no_text")
  IN  [i \in 1..Len(ok) |-> memory_text(ok[i])]

\* get_routing_context without its test on the text
get_routing_context_unfiltered(out) ==
  IF out.raises THEN [result |-> <<>>, raised |-> "none"]
  ELSE [result |-> stripped_texts(out.memories), raised |-> "none"]

\* OrchestratorMemoryHook.get_routing_context(query): out is what
\* retrieve_memories does
get_routing_context(out) ==
  IF out.raises THEN [result |-> <<>>, raised |-> "none"]
  ELSE [result |-> SelectSeq(stripped_texts(out.memories),
                             LAMBDA text : str_contains(str_lower(text), S_routing_decision)),
        raised |-> "none"]

\* get_customer_preferences without its try block
get_customer_preferences_unguarded(out) ==
  IF out.raises THEN [result |-> <<>>, raised |-> "ClientError"]
  ELSE [result |-> SelectSeq(stripped_texts(out.memories), LAMBDA text : text # <<>>),
        raised |-> "none"]

\* CustomerSupportMemoryHook.get_customer_preferences(query)
get_customer_preferences(out) ==
  IF out.raises THEN [result |-> <<>>, raised |-> "none"]
  ELSE [result |-> SelectSeq(stripped_texts(out.memories), LAMBDA text : text # <<>>),
        raised |-> "none"]

\* KnowledgeBaseMemoryHook.get_technical_history(query)
get_technical_history(out) ==
  IF out.raises THEN [result |-> <<>>, raised |-> "none"]
  ELSE [result |-> SelectSeq(stripped_texts(out.memories),
                             LAMBDA text : str_contains(str_lower(text), S_technical_solution)),
        raised |-> "none"]

X_RoutingDecision == <<"R","o","u","t","i","n","g"," ","D","e","c","i","s","i","o","n",":"," ","u","s","e"," ","K","B">>
X_TechnicalSolution == <<"T","e","c","h","n","i","c","a","l"," ","S","o","l","u","t","i","o","n",":"," ","r","e","s","e","t"," ","S","M","C">>

\* what retrieve_memories can do for a specialised hook
HookRetrieveOutcomes ==
  RetrieveOutcomes
    \cup { Returns(<< Memory(X_RoutingDecision), Memory(X_BatteryInfo) >>),
           Returns(<< Memory(X_TechnicalSolution), MemoryNotDict >>),
           Returns(<< Memory(X_BatteryInfo), Memory(X_padded), Memory(X_RoutingDecision) >>) }

\* a retrieval method of a specialised hook, called with a query
HookRetrieval(op, namespace, out, r) ==
  /\ obs' = [op |-> op, namespace |-> namespace, outcome |-> out,
             result |-> r.result, raised |-> r.raised]
  /\ retrieve_calls' = retrieve_calls + 1
  /\ pc' = IF r.raised = "none" THEN "returned" ELSE "raised"
  /\ UNCHANGED <<agent_type, actor_id, memory_id, _namespaces, storeVars, messages,
                 create_event_calls, strategy_calls, strategy_fetch, turnVars, clientVars>>

CallGetRoutingContext ==
  /\ pc = "ready"
  /\ agent_type = A_Orchestrator
  /\ \E out \in HookRetrieveOutcomes :
       HookRetrieval("get_routing_context", full_namespace(S_customer, actor_id, S_semantic),
                     out, get_routing_context(out))

CallGetCustomerPreferences ==
  /\ pc = "ready"
  /\ agent_type = A_CustomerSupport
  /\ \E out \in HookRetrieveOutcomes :
       HookRetrieval("get_customer_preferences",
                     full_namespace(S_customer, actor_id, S_preferences),
                     out, get_customer_preferences(out))

CallGetTechnicalHistory ==
  /\ pc = "ready"
  /\ agent_type = A_KnowledgeBase
  /\ \E out \in HookRetrieveOutcomes :
       HookRetrieval("get_technical_history", full_namespace(S_customer, actor_id, S_semantic),
                     out, get_technical_history(out))

NextRetrieve ==
  \/ CallGetCrossAgentContext
  \/ CallGetRoutingContext
  \/ CallGetCustomerPreferences
  \/ CallGetTechnicalHistory

SpecRetrieve == InitRetrieve /\ [][NextRetrieve]_vars

----------------------------------------------------------------------------
(* Claims about the retrieval operations, checked under SpecRetrieve       *)

CrossReturned == obs.op = "get_cross_agent_context" /\ obs.known # None

\* the (agent type, subtype) pairs the call was asked for
CrossRequested ==
  UNION { { <<t, cross_subtypes(t)[i]>> : i \in 1..Len(cross_subtypes(t)) } :
            t \in Range(obs.agent_types) }

\* the key of the result under which the snippets of a namespace are returned
CrossKey(req) ==
  IF req[1] = S_customer THEN S_customer \o S_underscore \o req[2] ELSE req[1]

CrossOutcome(req) == obs.backend[full_namespace(req[1], actor_id, req[2])]

\* the result has the snippets of the namespace under its key
CrossHasSnippets(req) ==
  \E i \in 1..Len(obs.context) :
    /\ obs.context[i].key = CrossKey(req)
    /\ obs.context[i].value = cross_texts(CrossOutcome(req).memories).val

\* every snippet of the namespace is in the result, under its key
CrossContainsSnippets(req) ==
  cross_texts(CrossOutcome(req).memories).val # <<>> => CrossHasSnippets(req)

\* C13: get_cross_agent_context does not raise, and when the retrieval of one
\* requested namespace raises while the retrievals of all the others return
\* well-formed memories, the result has the snippets of every other requested
\* namespace.
C13_FailureIsolatedPerNamespace ==
  CrossReturned
    => /\ obs.raised = "none"
       /\ \A bad \in CrossRequested :
            (\A req \in CrossRequested :
               IF req = bad THEN CrossOutcome(req).raises
               ELSE /\ ~CrossOutcome(req).raises
                    /\ cross_texts(CrossOutcome(req).memories).ok)
              => \A req \in CrossRequested \ {bad} : CrossContainsSnippets(req)

\* what the code isolates: agent types.  When the retrievals of a requested
\* agent type return well-formed memories, the result has their snippets,
\* whatever the retrievals of the other agent types do.
C13_FailureIsolatedPerAgentType ==
  CrossReturned
    => /\ obs.raised = "none"
       /\ \A t \in Range(obs.agent_types) :
            (\A req \in CrossRequested :
               req[1] = t => /\ ~CrossOutcome(req).raises
                             /\ cross_texts(CrossOutcome(req).memories).ok)
              => \A req \in CrossRequested : req[1] = t => CrossHasSnippets(req)

HookRetrieved ==
  obs.op \in {"get_routing_context", "get_customer_preferences", "get_technical_history"}

\* C14: get_customer_preferences, get_routing_context and
\* get_technical_history do not raise, and return the empty list when
\* retrieve_memories raises.
C14_RetrievalDegradesToEmpty ==
  HookRetrieved
    => /\ obs.raised = "none"
       /\ pc = "returned"
       /\ obs.outcome.raises => obs.result = <<>>

\* C14 witnesses: each of the three methods, on a raising backend
C14_Witness ==
  /\ obs.op = "get_customer_preferences"
  /\ obs.outcome.raises
  /\ obs.result = <<>>
  /\ pc = "returned"

C14_RoutingWitness ==
  /\ obs.op = "get_routing_context"
  /\ obs.outcome = Returns(<< Memory(X_RoutingDecision), Memory(X_BatteryInfo) >>)
  /\ obs.result = << X_RoutingDecision >>

----------------------------------------------------------------------------
(* SpecRoute: the orchestrator's route_to_agent tool                        *)

technical_keywords ==
  << <<"t","r","o","u","b","l","e","s","h","o","o","t">>,
     <<"e","r","r","o","r">>,
     <<"n","o","t"," ","w","o","r","k","i","n","g">>,
     <<"b","r","o","k","e","n">>,
     <<"f","i","x">>,
     <<"t","e","c","h","n","i","c","a","l">>,
     <<"s","u","p","p","o","r","t">>,
     <<"i","s","s","u","e">>,
     <<"p","r","o","b","l","e","m">> >>

service_keywords ==
  << <<"r","e","t","u","r","n">>,
     <<"r","e","f","u","n","d">>,
     <<"w","a","r","r","a","n","t","y">>,
     <<"p","o","l","i","c","y">>,
     <<"o","r","d","e","r">>,
     <<"s","h","i","p","p","i","n","g">>,
     <<"p","r","o","d","u","c","t"," ","i","n","f","o">>,
     <<"s","p","e","c","i","f","i","c","a","t","i","o","n","s">> >>

S_RoutingTo == <<"R","o","u","t","i","n","g"," ","t","o"," ">>
S_Agent == <<" ","a","g","e","n","t",":"," ">>
S_RoutingTechnical == <<"R","o","u","t","i","n","g"," ","t","o"," ","k","n","o","w","l","e","d","g","e","_","b","a","s","e"," ","a","g","e","n","t"," ","f","o","r"," ","t","e","c","h","n","i","c","a","l"," ","s","u","p","p","o","r","t",":"," ">>
S_RoutingService == <<"R","o","u","t","i","n","g"," ","t","o"," ","c","u","s","t","o","m","e","r","_","s","u","p","p","o","r","t"," ","a","g","e","n","t"," ","f","o","r"," ","g","e","n","e","r","a","l"," ","s","u","p","p","o","r","t",":"," ">>
S_RoutingInquiry == <<"R","o","u","t","i","n","g"," ","t","o"," ","c","u","s","t","o","m","e","r","_","s","u","p","p","o","r","t"," ","a","g","e","n","t"," ","f","o","r"," ","g","e","n","e","r","a","l"," ","i","n","q","u","i","r","y",":"," ">>

\* any(keyword in query_lower for keyword in keywords)
any_keyword(query_lower, keywords) ==
  \E i \in 1..Len(keywords) : str_contains(query_lower, keywords[i])

\* route_to_agent with the service keywords tested first
route_to_agent_service_first(query, explicit_type) ==
  LET query_lower == str_lower(query) IN
  IF explicit_type # <<>> THEN S_RoutingTo \o explicit_type \o S_Agent \o query
  ELSE IF any_keyword(query_lower, service_keywords) THEN S_RoutingService \o query
  ELSE IF any_keyword(query_lower, technical_keywords) THEN S_RoutingTechnical \o query
  ELSE S_RoutingInquiry \o query

\* route_to_agent(query, agent_type); explicit_type <<>> stands for None and
\* for the empty string, which are both false
route_to_agent(query, explicit_type) ==
  LET query_lower == str_lower(query) IN
  IF explicit_type # <<>> THEN S_RoutingTo \o explicit_type \o S_Agent \o query
  ELSE IF any_keyword(query_lower, technical_keywords) THEN S_RoutingTechnical \o query
  ELSE IF any_keyword(query_lower, service_keywords) THEN S_RoutingService \o query
  ELSE S_RoutingInquiry \o query

\* calls of the tool in one run
MaxRouteCalls == 2

S_knowledge_base == <<"k","n","o","w","l","e","d","g","e","_","b","a","s","e">>
S_customer_support == <<"c","u","s","t","o","m","e","r","_","s","u","p","p","o","r","t">>
Q_broken == <<"M","y"," ","s","c","r","e","e","n"," ","i","s"," ","B","R","O","K","E","N">>
Q_refund_error == <<"r","e","f","u","n","d"," ","f","o","r"," ","t","h","e"," ","e","r","r","o","r">>
Q_return == <<"R","e","t","u","r","n"," ","p","o","l","i","c","y">>
Q_prefix == <<"p","r","e","f","i","x">>
Q_hello == <<"h","e","l","l","o">>
S_billing == <<"b","i","l","l","i","n","g">>

RouteQueries == { <<>>, Q_hi, Q_hello, Q_battery, Q_broken, Q_refund_error, Q_return, Q_prefix }
RouteTypes == { <<>>, S_knowledge_base, S_billing }

InitRoute ==
  /\ InitHookOnly
  /\ agent_type = A_Orchestrator
  /\ actor_id = Actor_001
  /\ _namespaces = NoneNamespaces
  /\ store_strategies = DefaultStrategies
  /\ messages = <<>>
  /\ events = <<>>
  /\ create_event_calls = <<>>
  /\ retrieve_calls = 0
  /\ strategy_calls = 0
  /\ strategy_fetch = "none"
  /\ pc = "ready"
  /\ prompt = <<>>
  /\ returned = <<>>
  /\ turn = 0
  /\ rounds = 0
  /\ obs = [op |-> "none", query |-> <<>>, explicit_type |-> <<>>, result |-> <<>>]

\* the model calls the tool
CallRouteToAgent ==
  /\ turn < MaxRouteCalls
  /\ \E query \in RouteQueries, explicit_type \in RouteTypes :
       /\ returned' = route_to_agent(query, explicit_type)
       /\ obs' = [op |-> "route_to_agent", query |-> query, explicit_type |-> explicit_type,
                  result |-> returned',
                  previous |-> [op |-> obs.op, query |-> obs.query,
                                explicit_type |-> obs.explicit_type, result |-> obs.result]]
  /\ turn' = turn + 1
  /\ UNCHANGED <<hookVars, storeVars, messages, callVars, pc, prompt, answer, rounds,
                 clientVars>>

NextRoute == CallRouteToAgent

SpecRoute == InitRoute /\ [][NextRoute]_vars

----------------------------------------------------------------------------
(* Claims about route_to_agent, checked under SpecRoute                    *)

\* a call without an explicit agent type
RoutedByHeuristic == obs.op = "route_to_agent" /\ obs.explicit_type = <<>>

\* the agent the routing decision names: the third word of the result
RouteLabel(result) == str_split(result, " ")[3]

\* the lower-cased query has one of the keywords as a substring
Mentions(query, keywords) ==
  \E k \in Range(keywords) :
    \E i \in 1..Len(query) : \E j \in i..Len(query) : str_lower(SubSeq(query, i, j)) = k

\* C15: without an explicit agent type the label is knowledge_base when the
\* lower-cased query contains a technical keyword, a service keyword or not,
\* and customer_support otherwise; two calls with the same query return the
\* same result.
C15_TechnicalKeywordsFirst ==
  RoutedByHeuristic
    => /\ RouteLabel(obs.result) = IF Mentions(obs.query, technical_keywords)
                                   THEN S_knowledge_base ELSE S_customer_support
       /\ (obs.previous.op = "route_to_agent" /\ obs.previous.explicit_type = <<>>
             /\ obs.previous.query = obs.query)
            => obs.previous.result = obs.result

\* C15 witness: a query with a service and a technical keyword, asked twice
C15_Witness ==
  /\ RoutedByHeuristic
  /\ obs.query = Q_refund_error
  /\ obs.previous.op = "route_to_agent"
  /\ obs.previous.query = Q_refund_error
  /\ obs.previous.explicit_type = <<>>
  /\ RouteLabel(obs.result) = S_knowledge_base

----------------------------------------------------------------------------
(* SpecNamespaces: MemoryNamespace and MemoryNamespaceManager               *)

S_all == <<"a","l","l">>

\* MemoryNamespaceManager.NAMESPACES
NAMESPACES ==
  << [name |-> T_preferences, agent_type |-> S_all, strategy_type |-> "USER_PREFERENCE"],
     [name |-> T_semantic, agent_type |-> S_all, strategy_type |-> "SEMANTIC"] >>

\* format_for_actor that returns the template as it is
format_for_actor_unformatted(ns, actor) == [ok |-> TRUE, val |-> ns.name]

\* MemoryNamespace.format_for_actor(actor_id): [ok |-> did not raise, val |-> the text]
format_for_actor(ns, actor) == str_format(ns.name, actor)

\* get_namespaces_for_agent without the "all" clause
get_namespaces_for_agent_strict(label) ==
  SelectSeq(NAMESPACES, LAMBDA ns : ns.agent_type = label)

\* MemoryNamespaceManager.get_namespaces_for_agent(agent_type)
get_namespaces_for_agent(label) ==
  SelectSeq(NAMESPACES, LAMBDA ns : ns.agent_type = label \/ ns.agent_type = S_all)

\* MemoryNamespaceManager.format_namespaces_for_actor(actor_id, agent_type);
\* label <<>> stands for None and for the empty string
format_namespaces_for_actor(actor, label) ==
  LET nss == IF label # <<>> THEN get_namespaces_for_agent(label) ELSE NAMESPACES
  IN  [i \in 1..Len(nss) |-> format_for_actor(nss[i], actor)]

\* calls made in one run
MaxNamespaceCalls == 3

Actor_braces == <<"{","x","}">>
Actor_path == <<"a","/","b">>
S_ALL == <<"A","L","L">>

NamespaceLabels ==
  { <<>>, S_all, S_ALL, S_orchestrator, S_customer, S_knowledge_base, S_billing,
    A_Orchestrator, A_KnowledgeBase }
NamespaceActors == { Actor_001, Actor_002, <<>>, Actor_braces, Actor_path }

InitNamespaces ==
  /\ InitHookOnly
  /\ agent_type = A_Orchestrator
  /\ actor_id = Actor_001
  /\ _namespaces = NoneNamespaces
  /\ store_strategies = DefaultStrategies
  /\ messages = <<>>
  /\ events = <<>>
  /\ create_event_calls = <<>>
  /\ retrieve_calls = 0
  /\ strategy_calls = 0
  /\ strategy_fetch = "none"
  /\ pc = "ready"
  /\ prompt = <<>>
  /\ returned = <<>>
  /\ turn = 0
  /\ rounds = 0
  /\ obs = NoObs

NamespaceCall ==
  /\ turn < MaxNamespaceCalls
  /\ turn' = turn + 1
  /\ UNCHANGED <<hookVars, storeVars, messages, callVars, pc, prompt, returned, answer,
                 rounds, clientVars>>

CallGetNamespacesForAgent ==
  /\ NamespaceCall
  /\ \E label \in NamespaceLabels :
       obs' = [op |-> "get_namespaces_for_agent", label |-> label,
               result |-> get_namespaces_for_agent(label), raised |-> "none"]

CallFormatForActor ==
  /\ NamespaceCall
  /\ \E i \in 1..Len(NAMESPACES), actor \in NamespaceActors :
       LET r == format_for_actor(NAMESPACES[i], actor) IN
       obs' = [op |-> "format_for_actor", template |-> NAMESPACES[i].name, actor |-> actor,
               result |-> r.val, raised |-> IF r.ok THEN "none" ELSE "KeyError"]

CallFormatNamespacesForActor ==
  /\ NamespaceCall
  /\ \E label \in NamespaceLabels, actor \in NamespaceActors :
       LET r == format_namespaces_for_actor(actor, label) IN
       obs' = [op |-> "format_namespaces_for_actor", label |-> label, actor |-> actor,
               result |-> [i \in 1..Len(r) |-> r[i].val],
               raised |-> IF \A i \in 1..Len(r) : r[i].ok THEN "none" ELSE "KeyError"]

NextNamespaces ==
  \/ CallGetNamespacesForAgent
  \/ CallFormatForActor
  \/ CallFormatNamespacesForActor

SpecNamespaces == InitNamespaces /\ [][NextNamespaces]_vars

----------------------------------------------------------------------------
(* Claims about the namespace registry, checked under SpecNamespaces       *)

\* the namespaces registered for "all", in registry order
SharedNamespaces == SelectSeq(NAMESPACES, LAMBDA ns : ns.agent_type = S_all)

\* sub is seq with some elements left out, the order kept
RECURSIVE IsSubsequence(_, _)
IsSubsequence(sub, seq) ==
  IF sub = <<>> THEN TRUE
  ELSE IF seq = <<>> THEN FALSE
  ELSE IF Head(sub) = Head(seq) THEN IsSubsequence(Tail(sub), Tail(seq))
  ELSE IsSubsequence(sub, Tail(seq))

\* C16: for every agent-type label get_namespaces_for_agent returns, without
\* raising, a list that has every namespace registered for "all", in registry
\* order; for a label no registered namespace names, the list is exactly those.
C16_SharedNamespacesForAnyLabel ==
  obs.op = "get_namespaces_for_agent"
    => /\ obs.raised = "none"
       /\ IsSubsequence(SharedNamespaces, obs.result)
       /\ IsSubsequence(obs.result, NAMESPACES)
       /\ (\A i \in 1..Len(NAMESPACES) : NAMESPACES[i].agent_type # obs.label)
            => obs.result = SharedNamespaces

\* C16 witness: a label no namespace names gets the two customer namespaces
C16_Witness ==
  /\ obs.op = "get_namespaces_for_agent"
  /\ obs.label = S_billing
  /\ Len(obs.result) = 2
  /\ obs.result[1].name = T_preferences
  /\ obs.result[2].name = T_semantic

\* the template with its first "{actorId}" replaced by the actor id
SubstituteActor(template, actor) ==
  LET at == CHOOSE i \in 1..Len(template) :
              /\ SubSeq(template, i, i + Len(S_placeholder) - 1) = S_placeholder
              /\ \A j \in 1..(i - 1) :
                   SubSeq(template, j, j + Len(S_placeholder) - 1) # S_placeholder
  IN  SubSeq(template, 1, at - 1) \o actor
        \o SubSeq(template, at + Len(S_placeholder), Len(template))

\* C17: for every registered template and every actor id, format_for_actor
\* returns the template with {actorId} replaced by the actor id and every
\* other character unchanged.
C17_OnlyActorSubstituted ==
  obs.op = "format_for_actor"
    => /\ obs.raised = "none"
       /\ obs.result = SubstituteActor(obs.template, obs.actor)
       /\ Len(obs.result) = Len(obs.template) - Len(S_placeholder) + Len(obs.actor)

\* C17 witness: the example of the preferences template and customer_001
C17_Witness ==
  /\ obs.op = "format_for_actor"
  /\ obs.template = T_preferences
  /\ obs.actor = Actor_001
  /\ obs.result = <<"s","u","p","p","o","r","t","/","c","u","s","t","o","m","e","r","/","c","u","s","t","o","m","e","r","_","0","0","1","/","p","r","e","f","e","r","e","n","c","e","s">>

----------------------------------------------------------------------------
(* Seeding and analysis: MemorySeeder, MemoryAnalyzer and the seeding       *)
(* methods of the client                                                   *)

S_Query == <<"Q","u","e","r","y",":"," ">>
S_RoutedTo == <<"\n","R","o","u","t","e","d"," ","t","o",":"," ">>
S_Reasoning == <<"\n","R","e","a","s","o","n","i","n","g",":"," ">>
S_RoutingDecision == <<"R","o","u","t","i","n","g"," ","D","e","c","i","s","i","o","n",":"," ">>
S_CustomerSupport == <<"C","u","s","t","o","m","e","r","S","u","p","p","o","r","t">>
S_KnowledgeBase == <<"K","n","o","w","l","e","d","g","e","B","a","s","e">>

\* routing_decisions of MemorySeeder.seed_routing_decisions: (query, agent, reasoning)
SeederRoutingDecisions ==
  << << <<"T","h","e","r","m","a","l"," ","m","a","n","a","g","e","m","e","n","t"," ","a","n","d"," ","o","v","e","r","h","e","a","t","i","n","g"," ","i","s","s","u","e","s">>,
        <<"K","n","o","w","l","e","d","g","e","B","a","s","e">>,
        <<"T","e","c","h","n","i","c","a","l"," ","p","r","o","b","l","e","m"," ","r","e","q","u","i","r","i","n","g"," ","s","p","e","c","i","a","l","i","z","e","d"," ","t","r","o","u","b","l","e","s","h","o","o","t","i","n","g">> >>,
     << <<"P","r","o","d","u","c","t"," ","r","e","c","o","m","m","e","n","d","a","t","i","o","n","s"," ","a","n","d"," ","p","r","i","c","i","n","g">>,
        <<"C","u","s","t","o","m","e","r","S","u","p","p","o","r","t">>,
        <<"G","e","n","e","r","a","l"," ","p","r","o","d","u","c","t"," ","i","n","q","u","i","r","y"," ","w","i","t","h","i","n"," ","c","u","s","t","o","m","e","r"," ","s","u","p","p","o","r","t"," ","s","c","o","p","e">> >>,
     << <<"R","e","t","u","r","n"," ","p","o","l","i","c","y"," ","q","u","e","s","t","i","o","n","s">>,
        <<"C","u","s","t","o","m","e","r","S","u","p","p","o","r","t">>,
        <<"P","o","l","i","c","y","-","r","e","l","a","t","e","d"," ","i","n","q","u","i","r","y"," ","h","a","n","d","l","e","d"," ","b","y"," ","c","u","s","t","o","m","e","r"," ","s","u","p","p","o","r","t">> >>,
     << <<"H","a","r","d","w","a","r","e"," ","d","i","a","g","n","o","s","t","i","c","s"," ","a","n","d"," ","a","d","v","a","n","c","e","d"," ","t","r","o","u","b","l","e","s","h","o","o","t","i","n","g">>,
        <<"K","n","o","w","l","e","d","g","e","B","a","s","e">>,
        <<"C","o","m","p","l","e","x"," ","t","e","c","h","n","i","c","a","l"," ","i","s","s","u","e"," ","r","e","q","u","i","r","i","n","g"," ","k","n","o","w","l","e","d","g","e"," ","b","a","s","e"," ","e","x","p","e","r","t","i","s","e">> >>,
     << <<"G","a","m","i","n","g"," ","h","e","a","d","p","h","o","n","e"," ","r","e","c","o","m","m","e","n","d","a","t","i","o","n","s">>,
        <<"C","u","s","t","o","m","e","r","S","u","p","p","o","r","t">>,
        <<"P","r","o","d","u","c","t"," ","r","e","c","o","m","m","e","n","d","a","t","i","o","n"," ","w","i","t","h"," ","c","u","s","t","o","m","e","r"," ","p","r","e","f","e","r","e","n","c","e"," ","c","o","n","s","i","d","e","r","a","t","i","o","n">> >>,
     << <<"L","i","n","u","x"," ","c","o","m","p","a","t","i","b","i","l","i","t","y"," ","q","u","e","s","t","i","o","n","s">>,
        <<"C","u","s","t","o","m","e","r","S","u","p","p","o","r","t">>,
        <<"P","r","o","d","u","c","t"," ","c","o","m","p","a","t","i","b","i","l","i","t","y"," ","i","n","q","u","i","r","y"," ","f","o","r"," ","c","u","s","t","o","m","e","r"," ","s","u","p","p","o","r","t">> >> >>

\* the event one routing decision is stored as
routing_event(mem, actor, decision, role) ==
  [memory_id  |-> mem,
   actor_id   |-> actor,
   session_id |-> "routing_history",
   messages   |-> << << S_RoutingDecision \o S_Query \o decision[1] \o S_RoutedTo
                          \o decision[2] \o S_Reasoning \o decision[3], role >> >>]

\* the loop over the decisions: fail_at is the index of the create_event call
\* that raises, 0 when none does.  The calls made and the events stored.
seed_loop(mem, actor, decisions, role, fail_at) ==
  LET made == IF fail_at = 0 THEN Len(decisions) ELSE fail_at
      done == IF fail_at = 0 THEN Len(decisions) ELSE fail_at - 1
  IN  [calls  |-> [i \in 1..made |-> routing_event(mem, actor, decisions[i], role)],
       stored |-> [i \in 1..done |-> routing_event(mem, actor, decisions[i], role)]]

\* MemorySeeder.seed_routing_decisions(actor_id): returns whether all were stored
seeder_seed_routing_decisions(mem, actor, fail_at) ==
  LET r == seed_loop(mem, actor, SeederRoutingDecisions, "OTHER", fail_at)
  IN  [calls |-> r.calls, stored |-> r.stored, result |-> fail_at = 0, raised |-> "none"]

\* MultiAgentMemoryClient.seed_routing_decisions(actor_id, routing_decisions)
seed_routing_decisions(known, actor, decisions, fail_at) ==
  IF known = None
  THEN [calls |-> <<>>, stored |-> <<>>, result |-> None, raised |-> "ValueError"]
  ELSE LET r == seed_loop(known, actor, decisions, "SYSTEM", fail_at)
       IN  [calls |-> r.calls, stored |-> r.stored, result |-> None,
            raised |-> IF fail_at = 0 THEN "none" ELSE "ClientError"]

\* MultiAgentMemoryClient.seed_multi_agent_interactions(actor_id, interactions)
seed_multi_agent_interactions(known, actor, interactions, create_raises) ==
  IF known = None
  THEN [calls |-> <<>>, stored |-> <<>>, result |-> None, raised |-> "ValueError"]
  ELSE LET e == [memory_id |-> known, actor_id |-> actor,
                 session_id |-> "historical_interactions", messages |-> interactions]
       IN  [calls |-> <<e>>, stored |-> IF create_raises THEN <<>> ELSE <<e>>,
            result |-> None, raised |-> IF create_raises THEN "ClientError" ELSE "none"]

\* agent_counts[key] = agent_counts.get(key, 0) + 1, on the items of the dict
count_inc(items, key) ==
  IF \E i \in 1..Len(items) : items[i].key = key
  THEN [i \in 1..Len(items) |->
          IF items[i].key = key THEN [key |-> key, value |-> items[i].value + 1]
          ELSE items[i]]
  ELSE Append(items, [key |-> key, value |-> 1])

\* the counting of analyze_routing_patterns over the texts kept
RECURSIVE agent_counts(_, _)
agent_counts(texts, counts) ==
  IF texts = <<>> THEN counts
  ELSE agent_counts(Tail(texts),
         IF str_contains(Head(texts), S_CustomerSupport) THEN count_inc(counts, S_CustomerSupport)
         ELSE IF str_contains(Head(texts), S_KnowledgeBase)
         THEN count_inc(counts, S_KnowledgeBase)
         ELSE counts)

\* MemoryAnalyzer.analyze_routing_patterns(actor_id): out is what
\* retrieve_memories does for support/orchestrator/<actor>/routing, top_k 10
analyze_routing_patterns(actor, out) ==
  IF out.raises
  THEN [error |-> TRUE, patterns |-> <<>>, agent_distribution |-> <<>>, raised |-> "none"]
  ELSE LET patterns == SelectSeq(stripped_texts(out.memories), LAMBDA text : text # <<>>)
       IN  [error |-> FALSE, patterns |-> patterns,
            agent_distribution |-> agent_counts(patterns, <<>>), raised |-> "none"]

\* MultiAgentMemoryClient.get_memory_statistics(): the size of the stats, or
\* the error dict
get_memory_statistics(known, get_raises, strategies) ==
  IF known = None \/ get_raises
  THEN [error |-> TRUE, strategies |-> 0, namespaces |-> <<>>, raised |-> "none"]
  ELSE [error |-> FALSE, strategies |-> Len(strategies),
        namespaces |-> dict_namespaces(strategies), raised |-> "none"]

----------------------------------------------------------------------------
(* SpecStore: one memory store, written by the hook and the seeders and   *)
(* read by the analyzer and the client.  The store is external: the records *)
(* it returns for a namespace are taken here to be the texts of the actor's *)
(* events, as they are and oldest first, when one of its strategies writes   *)
(* that namespace, and nothing when none does.                             *)

\* operations called in one run
MaxStoreOps == 2

\* the namespaces the strategies of the store write for the actor
store_namespaces(strategies, actor) ==
  { str_format(dict_namespaces(strategies)[i], actor).val :
      i \in 1..Len(dict_namespaces(strategies)) }

\* the texts of the messages of the actor's events, oldest first
RECURSIVE event_texts(_, _)
event_texts(evs, actor) ==
  IF evs = <<>> THEN <<>>
  ELSE (IF Head(evs).actor_id = actor
        THEN [i \in 1..Len(Head(evs).messages) |-> Head(evs).messages[i][1]]
        ELSE <<>>) \o event_texts(Tail(evs), actor)

\* the records retrieve_memories returns for the namespace, at most k
store_records(evs, strategies, namespace, actor, k) ==
  IF namespace \in store_namespaces(strategies, actor)
  THEN LET texts == event_texts(evs, actor)
       IN  [i \in 1..(IF Len(texts) < k THEN Len(texts) ELSE k) |-> Memory(texts[i])]
  ELSE <<>>

\* what a retrieve_memories call on the store can do
StoreRetrieveOutcomes(namespace, k) ==
  { Raises, Returns(store_records(events, store_strategies, namespace, actor_id, k)) }

R_tech == <<"t","e","c","h","n","i","c","a","l">>
R_policy == <<"p","o","l","i","c","y">>
Q_ask == <<"n","o","t"," ","f","o","r"," ","C","u","s","t","o","m","e","r","S","u","p","p","o","r","t">>

\* routing_decisions arguments of the client's seed_routing_decisions
ClientDecisionLists ==
  { << <<Q_battery, S_KnowledgeBase, R_tech>>, <<Q_broken, S_KnowledgeBase, R_tech>>,
       <<Q_return, S_CustomerSupport, R_policy>> >>,
    << <<Q_ask, S_KnowledgeBase, R_tech>> >>,
    << >> }

RoutingStrategies == DefaultStrategies \o << Strategy("CUSTOM", <<T_routing>>) >>

\* the transcript of the agent the hook is registered on
StoreTranscripts ==
  { << UserText(Q_hi), AssistantText(R_hello) >>, << UserText(Q_battery) >> }

InitStore ==
  /\ InitHookOnly
  /\ agent_type = A_Orchestrator
  /\ actor_id = Actor_001
  /\ _namespaces = NoneNamespaces
  /\ store_strategies \in {DefaultStrategies, RoutingStrategies}
  /\ messages \in StoreTranscripts
  /\ events = <<>>
  /\ create_event_calls = <<>>
  /\ retrieve_calls = 0
  /\ strategy_calls = 0
  /\ strategy_fetch = "none"
  /\ pc = "ready"
  /\ prompt = <<>>
  /\ returned = <<>>
  /\ turn = 0
  /\ rounds = 0
  /\ obs = NoObs

\* an operation that leaves the client's cache and the progress record alone
StoreOp ==
  /\ client_ops < MaxStoreOps
  /\ client_ops' = client_ops + 1
  /\ UNCHANGED <<hookVars, store_strategies, messages, strategy_calls, strategy_fetch, pc,
                 turnVars, progress, store_memories, create_calls>>

\* a method of client 1 that reads self.memory_id
StoreClientOp ==
  /\ StoreOp
  /\ _memory_id' = [_memory_id EXCEPT ![1] = memory_id_get(_memory_id[1], progress)]

\* writes that replace the events of the store by the new ones
StoreWrites_overwrite(r) ==
  /\ create_event_calls' = create_event_calls \o r.calls
  /\ events' = r.stored
  /\ UNCHANGED retrieve_calls

\* the create_event calls r.calls were made and r.stored reached the store
StoreWrites(r) ==
  /\ create_event_calls' = create_event_calls \o r.calls
  /\ events' = events \o r.stored
  /\ UNCHANGED retrieve_calls

StoreReads(n) ==
  /\ retrieve_calls' = retrieve_calls + n
  /\ UNCHANGED <<create_event_calls, events>>

\* the MessageAdded callback: retrieve_agent_context on the transcript
HookRetrieves ==
  /\ client_ops < MaxStoreOps
  /\ client_ops' = client_ops + 1
  /\ MessageAdded(messages,
       UNION { StoreRetrieveOutcomes(ns, top_k) :
                 ns \in store_namespaces(store_strategies, actor_id) })
  /\ UNCHANGED <<agent_type, actor_id, memory_id, storeVars, create_event_calls, pc, turnVars,
                 _memory_id, progress, store_memories, create_calls>>

\* the AfterInvocation callback: save_agent_interaction on the transcript
HookSaves ==
  /\ StoreOp
  /\ AfterInvocation
  /\ UNCHANGED <<_memory_id, retrieve_calls>>

SeederSeedsRoutingDecisions ==
  /\ StoreOp
  /\ \E fail_at \in {0, 3} :
       LET r == seeder_seed_routing_decisions(memory_id, actor_id, fail_at) IN
       /\ StoreWrites(r)
       /\ obs' = [op |-> "MemorySeeder.seed_routing_decisions", actor |-> actor_id,
                  decisions |-> SeederRoutingDecisions, fail_at |-> fail_at,
                  result |-> r.result, raised |-> r.raised]
  /\ UNCHANGED _memory_id

ClientSeedsRoutingDecisions ==
  /\ StoreClientOp
  /\ \E decisions \in ClientDecisionLists : \E fail_at \in {0, Len(decisions)} :
       LET r == seed_routing_decisions(memory_id_get(_memory_id[1], progress), actor_id,
                                       decisions, fail_at) IN
       /\ StoreWrites(r)
       /\ obs' = [op |-> "seed_routing_decisions", actor |-> actor_id,
                  decisions |-> decisions, fail_at |-> fail_at,
                  result |-> r.result, raised |-> r.raised]

ClientSeedsInteractions ==
  /\ StoreClientOp
  /\ \E create_raises \in BOOLEAN :
       LET r == seed_multi_agent_interactions(memory_id_get(_memory_id[1], progress), actor_id,
                  << <<Q_hi, "USER">>, <<R_hello, "ASSISTANT">> >>, create_raises) IN
       /\ StoreWrites(r)
       /\ obs' = [op |-> "seed_multi_agent_interactions", actor |-> actor_id,
                  result |-> r.result, raised |-> r.raised]

AnalyzerAnalyzesRoutingPatterns ==
  /\ StoreOp
  /\ \E out \in StoreRetrieveOutcomes(full_namespace(S_orchestrator, actor_id, S_routing), 10) :
       LET r == analyze_routing_patterns(actor_id, out) IN
       /\ obs' = [op |-> "analyze_routing_patterns", actor |-> actor_id, outcome |-> out,
                  error |-> r.error, patterns |-> r.patterns,
                  agent_distribution |-> r.agent_distribution, raised |-> r.raised]
  /\ StoreReads(1)
  /\ UNCHANGED _memory_id

ClientGetsStatistics ==
  /\ StoreClientOp
  /\ \E get_raises \in BOOLEAN :
       LET r == get_memory_statistics(memory_id_get(_memory_id[1], progress), get_raises,
                                      store_strategies) IN
       obs' = [op |-> "get_memory_statistics", error |-> r.error, strategies |-> r.strategies,
               namespaces |-> r.namespaces, raised |-> r.raised]
  /\ StoreReads(0)

ClientGetsCrossAgentContext ==
  /\ StoreClientOp
  /\ LET known == memory_id_get(_memory_id[1], progress)
         nss   == CrossNamespaces(actor_id)
         all   == UNION { StoreRetrieveOutcomes(ns, 2) : ns \in nss }
     IN  \E backend \in { f \in [nss -> all] :
                            /\ \A ns \in nss : f[ns] \in StoreRetrieveOutcomes(ns, 2)
                            /\ Cardinality({ ns \in nss : f[ns].raises }) <= 1 } :
           LET r == get_cross_agent_context(known, actor_id, <<>>, backend) IN
           /\ StoreReads(Len(r.queried))
           /\ obs' = [op |-> "get_cross_agent_context", known |-> known,
                      agent_types |-> DefaultCrossTypes, backend |-> backend,
                      context |-> r.context, queried |-> r.queried, raised |-> r.raised]

ClientCleansUp ==
  /\ client_ops < MaxStoreOps
  /\ CleanupMemory(1)
  /\ UNCHANGED <<hookVars, storeVars, messages, callVars, pc, turnVars>>

NextStore ==
  \/ HookRetrieves
  \/ HookSaves
  \/ SeederSeedsRoutingDecisions
  \/ ClientSeedsRoutingDecisions
  \/ ClientSeedsInteractions
  \/ AnalyzerAnalyzesRoutingPatterns
  \/ ClientGetsStatistics
  \/ ClientGetsCrossAgentContext
  \/ ClientCleansUp

SpecStore == InitStore /\ [][NextStore]_vars

----------------------------------------------------------------------------
(* Claims checked under SpecStore                                           *)

AgentLabels == {S_KnowledgeBase, S_CustomerSupport}

\* the routing decisions seeded for the actor that carry the label
SeededWithLabel(label) ==
  { i \in 1..Len(events) :
      /\ events[i].actor_id = actor_id
      /\ events[i].session_id = "routing_history"
      /\ str_contains(events[i].messages[1][1], S_RoutedTo \o label \o S_Reasoning) }

\* agent_distribution.get(label, 0)
DistributionOf(dist, label) ==
  IF \E i \in 1..Len(dist) : dist[i].key = label
  THEN (CHOOSE e \in Range(dist) : e.key = label).value
  ELSE 0

\* analyze_routing_patterns has returned its analysis of the actor's records
Analyzed ==
  /\ obs.op = "analyze_routing_patterns"
  /\ ~obs.error

\* the store serves the namespace analyze_routing_patterns reads
RoutingNamespaceServed ==
  full_namespace(S_orchestrator, actor_id, S_routing) \in store_namespaces(store_strategies, actor_id)

\* C18: after routing decisions were seeded for an actor and
\* analyze_routing_patterns has analyzed that actor on a store that serves the
\* routing namespace, agent_distribution maps each of the labels KnowledgeBase
\* and CustomerSupport to the number of seeded decisions carrying that label.
C18_SeededCountsAnalyzed ==
  (Analyzed /\ RoutingNamespaceServed) =>
    \A label \in AgentLabels :
      DistributionOf(obs.agent_distribution, label) = Cardinality(SeededWithLabel(label))

\* C18, what the code computes: a record counts for CustomerSupport when its
\* text mentions CustomerSupport anywhere, for KnowledgeBase when it mentions
\* KnowledgeBase and not CustomerSupport, and only records the store returns
\* for support/orchestrator/<actor>/routing are counted.
C18_CountsByMention ==
  Analyzed =>
    LET texts == obs.patterns IN
    /\ DistributionOf(obs.agent_distribution, S_CustomerSupport)
         = Cardinality({ i \in 1..Len(texts) : str_contains(texts[i], S_CustomerSupport) })
    /\ DistributionOf(obs.agent_distribution, S_KnowledgeBase)
         = Cardinality({ i \in 1..Len(texts) :
                           /\ str_contains(texts[i], S_KnowledgeBase)
                           /\ ~str_contains(texts[i], S_CustomerSupport) })
    /\ (~RoutingNamespaceServed => obs.agent_distribution = <<>>)

\* C18: the six decisions of the seeder were analyzed on a store serving the
\* routing namespace
C18_SeederAnalyzed ==
  /\ Analyzed /\ RoutingNamespaceServed
  /\ Cardinality(SeededWithLabel(S_KnowledgeBase)) = 2
  /\ Cardinality(SeededWithLabel(S_CustomerSupport)) = 4
  /\ DistributionOf(obs.agent_distribution, S_KnowledgeBase) = 2
  /\ DistributionOf(obs.agent_distribution, S_CustomerSupport) = 4

\* s is a prefix of t
IsPrefix(s, t) == Len(s) <= Len(t) /\ SubSeq(t, 1, Len(s)) = s

\* C19: events are append-only.  Every step of the hook callbacks, the
\* seeding, the analysis, the statistics, the cross-agent retrieval and the
\* cleanup leaves the events of the store as they were or appends to them:
\* the events before the step are a prefix of the events after it.
C19_EventsAppendOnly == [][IsPrefix(events, events')]_vars

\* C19: events were stored, and cleanup_memory then ran and left them there
C19_Witness ==
  /\ obs.op = "cleanup_memory"
  /\ obs.result = TRUE
  /\ events # <<>>
  /\ progress.memory_id = None

----------------------------------------------------------------------------
(* Claims about transcripts of an unexpected shape, checked under           *)
(* SpecContext                                                             *)

\* the transcript is empty, or its last message has no content block, or the
\* first content block of its last message, a user message, has no text
MalformedTranscript(msgs) ==
  \/ msgs = <<>>
  \/ msgs[Len(msgs)].content = <<>>
  \/ /\ msgs[Len(msgs)].role = "user"
     /\ "text" \notin DOMAIN msgs[Len(msgs)].content[1]

\* C20: when retrieve_agent_context is invoked on a transcript that is empty,
\* or whose last message has an empty content list, or whose last user
\* message's first content block has no text field, the callback makes no
\* retrieval call, changes no message and does not raise.
C20_MalformedSkippedSilently ==
  (obs.op = "retrieve_agent_context" /\ MalformedTranscript(obs.before)) =>
    /\ obs.raised = "none"
    /\ obs.queried = <<>>
    /\ retrieve_calls = 0
    /\ messages = obs.before

\* C20, what the code does: on such a transcript nothing is retrieved and no
\* message changes; the callback returns when the last message is not a user
\* message or its first block is a tool result, and otherwise the lookup
\* that failed raises out of it.
C20_MalformedNotRetrieved ==
  (obs.op = "retrieve_agent_context" /\ MalformedTranscript(obs.before)) =>
    LET last == obs.before[Len(obs.before)] IN
    /\ obs.queried = <<>>
    /\ retrieve_calls = 0
    /\ messages = obs.before
    /\ obs.raised =
         (IF obs.before = <<>> THEN "IndexError"
          ELSE IF last.role # "user" THEN "none"
          ELSE IF last.content = <<>> THEN "IndexError"
          ELSE IF "toolResult" \in DOMAIN last.content[1] THEN "none"
          ELSE "KeyError")

----------------------------------------------------------------------------
(* SpecCache: one hook instance over the life of its process.  Messages are *)
(* added to the agent's transcript turn after turn, the relevant namespaces *)
(* are read, and the strategies of the store change under the hook.         *)

\* callbacks and reads served by the hook instance
MaxHookCalls == 3

InitCache ==
  /\ InitHookOnly
  /\ agent_type = A_Orchestrator
  /\ actor_id = Actor_001
  /\ _namespaces = NoneNamespaces
  /\ store_strategies \in StrategySets
  /\ messages = <<>>
  /\ events = <<>>
  /\ create_event_calls = <<>>
  /\ retrieve_calls = 0
  /\ strategy_calls = 0
  /\ strategy_fetch = "none"
  /\ pc = "ready"
  /\ prompt = <<>>
  /\ returned = <<>>
  /\ turn = 0
  /\ rounds = 0
  /\ obs = NoObs

CacheUnchanged ==
  UNCHANGED <<agent_type, actor_id, memory_id, events, create_event_calls, prompt, returned,
              answer, turn, clientVars>>

\* a user message is added and MessageAddedEvent fires
HookSeesUserMessage ==
  /\ pc = "ready"
  /\ rounds < MaxHookCalls
  /\ rounds' = rounds + 1
  /\ \E p \in Prompts : MessageAdded(Append(messages, UserText(p)), TurnOutcomes)
  /\ pc' = "model"
  /\ UNCHANGED store_strategies
  /\ CacheUnchanged

\* the assistant's answer is added and MessageAddedEvent fires
HookSeesAssistantMessage ==
  /\ pc = "model"
  /\ MessageAdded(Append(messages, AssistantText(R_hello)), TurnOutcomes)
  /\ pc' = "ready"
  /\ UNCHANGED <<store_strategies, rounds>>
  /\ CacheUnchanged

\* get_relevant_namespaces() is called on the hook
HookListsNamespaces ==
  /\ pc = "ready"
  /\ rounds < MaxHookCalls
  /\ rounds' = rounds + 1
  /\ \E fetch_raises \in (IF _namespaces.is_none THEN BOOLEAN ELSE {FALSE}) :
       LET fetch == [raises |-> fetch_raises, strategies |-> store_strategies]
           cache == namespaces(_namespaces, fetch)
           rel   == get_relevant_namespaces(cache, actor_id)
       IN  /\ _namespaces' = cache
           /\ strategy_calls' = strategy_calls + (IF _namespaces.is_none THEN 1 ELSE 0)
           /\ strategy_fetch' = IF ~_namespaces.is_none THEN strategy_fetch
                                ELSE IF fetch_raises THEN "raised" ELSE "ok"
           /\ obs' = [op     |-> "get_relevant_namespaces",
                      result |-> rel.val,
                      raised |-> IF rel.ok THEN "none" ELSE "KeyError"]
  /\ UNCHANGED <<store_strategies, messages, retrieve_calls, pc>>
  /\ CacheUnchanged

\* the strategies of the memory are changed in the store, outside the hook
StoreChangesStrategies ==
  /\ pc = "ready"
  /\ store_strategies = DefaultStrategies
  /\ store_strategies' \in { << Strategy("SEMANTIC", <<T_semantic>>) >>, << >> }
  /\ UNCHANGED <<_namespaces, messages, callVars, pc, rounds, obs>>
  /\ CacheUnchanged

NextCache ==
  \/ HookSeesUserMessage
  \/ HookSeesAssistantMessage
  \/ HookListsNamespaces
  \/ StoreChangesStrategies

SpecCache == InitCache /\ [][NextCache]_vars

----------------------------------------------------------------------------
(* Claims checked under SpecCache                                           *)

\* C21: the strategy-to-namespace cache is fetched once in the life of a hook.
\* Over every step get_memory_strategies has been called at most once, a
\* cache that is filled is left as it is, and once that one call has failed
\* the relevant namespaces are empty and the callback injects nothing and
\* changes no message.
C21_FetchedOncePerHook ==
  [][ /\ strategy_calls' <= 1
      /\ (~_namespaces.is_none => _namespaces' = _namespaces)
      /\ (strategy_fetch' = "raised" =>
            /\ get_relevant_namespaces(_namespaces', actor_id).val = <<>>
            /\ (obs'.op = "get_relevant_namespaces" => obs'.result = <<>>)
            /\ (obs'.op = "retrieve_agent_context" =>
                  /\ ~obs'.injected
                  /\ obs'.queried = <<>>
                  /\ messages' = obs'.before)) ]_vars

\* C21: the one fetch failed, and on a later user message the callback found
\* no namespace to query
C21_FailedFetchWitness ==
  /\ strategy_fetch = "raised"
  /\ strategy_calls = 1
  /\ rounds >= 2
  /\ obs.op = "retrieve_agent_context"
  /\ ~obs.fetch_raised
  /\ context_guard(obs.before) = "query"
  /\ obs.queried = <<>>

\* C21: the cache was filled, the store's strategies then changed, and a later
\* user message was served from the cache
C21_Witness ==
  /\ strategy_fetch = "ok"
  /\ strategy_calls = 1
  /\ store_strategies # DefaultStrategies
  /\ _namespaces = DictOf(strategies_dict(DefaultStrategies, <<>>))
  /\ obs.op = "retrieve_agent_context"
  /\ obs.queried # <<>>

----------------------------------------------------------------------------
(* Further claims checked under SpecContext                                 *)

\* the newest message is an assistant message, or a user message whose first
\* content block is a tool result
NotGenuineUserLast(msgs) ==
  /\ msgs # <<>>
  /\ \/ msgs[Len(msgs)].role = "assistant"
     \/ /\ msgs[Len(msgs)].role = "user"
        /\ msgs[Len(msgs)].content # <<>>
        /\ "toolResult" \in DOMAIN msgs[Len(msgs)].content[1]

\* C22: when the last message has role assistant, or is a user message whose
\* first content block is a tool result, retrieve_agent_context makes no
\* retrieve_memories call, leaves every message of the transcript unchanged
\* and returns.
C22_NoOpUnlessGenuineUser ==
  (obs.op = "retrieve_agent_context" /\ NotGenuineUserLast(obs.before)) =>
    /\ obs.queried = <<>>
    /\ retrieve_calls = 0
    /\ messages = obs.before
    /\ obs.raised = "none"

\* C22: the callback has run on a transcript whose newest message is a tool
\* result
C22_Witness ==
  /\ obs.op = "retrieve_agent_context"
  /\ obs.before = << UserText(Q_hi), AssistantToolUse, ToolResult >>
  /\ messages = obs.before
  /\ retrieve_calls = 0
  /\ pc = "returned"

\* C22: the callback has run on a transcript whose newest message is the
\* assistant's
C22_AssistantWitness ==
  /\ obs.op = "retrieve_agent_context"
  /\ obs.before = << UserText(Q_hi), AssistantText(R_hello) >>
  /\ messages = obs.before
  /\ retrieve_calls = 0

----------------------------------------------------------------------------
(* Further claims checked under SpecSave                                    *)

\* the event pairs the text of the genuine user message nearest before the
\* last message with the tagged text of the last message
PairsLastExchange(msgs, call) ==
  LET u == NearestUserBefore(msgs, Len(msgs)) IN
  /\ u > 0
  /\ HasText(msgs[u])
  /\ "text" \in DOMAIN Last(msgs).content[1]
  /\ call.messages =
       << <<msgs[u].content[1].text, "USER">>,
          <<(<<"[">> \o agent_type \o <<"]", " ">> \o Last(msgs).content[1].text), "ASSISTANT">> >>

\* C23: for any transcript ending in an assistant message, the pair persisted
\* by save_agent_interaction is the text of the nearest genuine user message
\* before it and the text of that last assistant message, so nothing of a
\* tool-result message or of an earlier assistant message is in the event;
\* and for a transcript ending in a user message nothing is persisted.
C23_PairsAcrossToolExchanges ==
  Saved =>
    /\ \A i \in 1..Len(obs.calls) :
         /\ Last(obs.before).role = "assistant"
         /\ PairsLastExchange(obs.before, obs.calls[i])
    /\ (obs.before # <<>> /\ Last(obs.before).role = "user" => obs.calls = <<>>)

\* C23, what the code does: the pairing is as claimed whenever the last
\* assistant message has a non-empty text, at most one event is persisted,
\* and nothing is persisted for a transcript ending in a user message.
C23_PairsWhenLastHasText ==
  Saved =>
    /\ Len(obs.calls) <= 1
    /\ \A i \in 1..Len(obs.calls) :
         /\ Last(obs.before).role = "assistant"
         /\ HasText(Last(obs.before)) => PairsLastExchange(obs.before, obs.calls[i])
    /\ (obs.before # <<>> /\ Last(obs.before).role = "user" => obs.calls = <<>>)

----------------------------------------------------------------------------
(* SpecShared: the orchestrator, customer-support and knowledge-base        *)
(* processes, each with its own hook instance, writing to one store.  In    *)
(* this specification agent_type, memory_id, messages, pc and returned are  *)
(* functions of the process: returned[h] is the create_event request that   *)
(* process h has built and not yet sent.                                    *)

\* turns served by the three processes together
MaxSharedTurns == 3

HookProcesses == 1..3

\* SESSION_ID = str(uuid.uuid4()) of process h
HookSession(h) == "session-" \o ToString(h)

\* the hook all three processes would have if the session id were one value
\* of the module and not a value of each process
hook_of_one_session(h) ==
  [memory_id  |-> memory_id[h],
   actor_id   |-> actor_id,
   session_id |-> HookSession(1),
   agent_type |-> agent_type[h]]

\* the fields __init__ stores on the hook of process h
hook_of(h) ==
  [memory_id  |-> memory_id[h],
   actor_id   |-> actor_id,
   session_id |-> HookSession(h),
   agent_type |-> agent_type[h]]

InitShared ==
  /\ _memory_id = [c \in Clients |-> None]
  /\ progress = memory_id_set(NoProgress, OldMemoryId)
  /\ store_memories = {OldMemoryId, "memory-1"}
  /\ create_calls = 0
  /\ client_ops = 0
  /\ answer = <<>>
  /\ agent_type = << A_Orchestrator, A_CustomerSupport, A_KnowledgeBase >>
  /\ memory_id \in { [h \in HookProcesses |-> OldMemoryId],
                     [h \in HookProcesses |-> IF h = 3 THEN "memory-1" ELSE OldMemoryId] }
  /\ actor_id = Actor_001
  /\ _namespaces = NoneNamespaces
  /\ store_strategies = DefaultStrategies
  /\ messages = [h \in HookProcesses |-> <<>>]
  /\ events = <<>>
  /\ create_event_calls = <<>>
  /\ retrieve_calls = 0
  /\ strategy_calls = 0
  /\ strategy_fetch = "none"
  /\ pc = [h \in HookProcesses |-> "idle"]
  /\ prompt = <<>>
  /\ returned = [h \in HookProcesses |-> <<>>]
  /\ turn = 0
  /\ rounds = 0
  /\ obs = NoObs

SharedUnchanged ==
  UNCHANGED <<agent_type, actor_id, memory_id, _namespaces, store_strategies, retrieve_calls,
              strategy_calls, strategy_fetch, prompt, answer, rounds, clientVars>>

\* the agent of process h has answered a prompt: its transcript ends in the
\* user message and the assistant's answer
AgentAnswers(h) ==
  /\ pc[h] = "idle"
  /\ turn < MaxSharedTurns
  /\ turn' = turn + 1
  /\ \E p \in {Q_hi, Q_battery} :
       messages' = [messages EXCEPT ![h] = @ \o << UserText(p), AssistantText(R_hello) >>]
  /\ pc' = [pc EXCEPT ![h] = "answered"]
  /\ UNCHANGED <<events, create_event_calls, returned, obs>>
  /\ SharedUnchanged

\* save_agent_interaction of the hook of process h, up to its create_event call
HookBuildsEvent(h) ==
  /\ pc[h] = "answered"
  /\ LET hook == hook_of(h)
         r    == save_agent_interaction(messages[h], hook.memory_id, hook.actor_id,
                                        hook.session_id, hook.agent_type, FALSE)
     IN  /\ returned' = [returned EXCEPT ![h] = r.calls]
         /\ pc' = [pc EXCEPT ![h] = IF r.calls = <<>> THEN "idle" ELSE "creating"]
  /\ UNCHANGED <<messages, events, create_event_calls, turn, obs>>
  /\ SharedUnchanged

\* the create_event call of process h reaches the store, or fails
HookCreatesEvent(h) ==
  /\ pc[h] = "creating"
  /\ \E create_raises \in BOOLEAN :
       /\ create_event_calls' = create_event_calls \o returned[h]
       /\ events' = IF create_raises THEN events ELSE events \o returned[h]
       /\ obs' = [op |-> "save_agent_interaction", hook |-> h, before |-> messages[h],
                  calls |-> returned[h], create_raised |-> create_raises,
                  raised |-> IF create_raises THEN except_Exception("ClientError") ELSE "none"]
  /\ returned' = [returned EXCEPT ![h] = <<>>]
  /\ pc' = [pc EXCEPT ![h] = "idle"]
  /\ UNCHANGED <<messages, turn>>
  /\ SharedUnchanged

ProcessAnswers == \E h \in HookProcesses : AgentAnswers(h)
ProcessBuildsEvent == \E h \in HookProcesses : HookBuildsEvent(h)
ProcessCreatesEvent == \E h \in HookProcesses : HookCreatesEvent(h)

NextShared ==
  \/ ProcessAnswers
  \/ ProcessBuildsEvent
  \/ ProcessCreatesEvent

SpecShared == InitShared /\ [][NextShared]_vars

----------------------------------------------------------------------------
(* Claims checked under SpecShared                                          *)

\* the event was written under the ids of the hook of process h and its
\* ASSISTANT text carries that hook's tag
WrittenByHook(e, h) ==
  /\ e.memory_id = memory_id[h]
  /\ e.actor_id = actor_id
  /\ e.session_id = HookSession(h)
  /\ Len(e.messages) = 2
  /\ e.messages[1][2] = "USER"
  /\ e.messages[2][2] = "ASSISTANT"
  /\ IsPrefix(<<"[">> \o agent_type[h] \o <<"]", " ">>, e.messages[2][1])

\* C24: under any interleaving of the three processes writing to the one
\* store, every event of the store carries the memory, actor and session ids
\* of one hook instance and its ASSISTANT text starts with the tag of that
\* hook's agent type; an event under the session id of a process never has
\* the tag of another.
C24_EventsCarryTheirHook ==
  /\ \A i \in 1..Len(events) : \E h \in HookProcesses : WrittenByHook(events[i], h)
  /\ \A i \in 1..Len(events) : \A h \in HookProcesses :
       events[i].session_id = HookSession(h) => WrittenByHook(events[i], h)

\* C24: the three processes have each written an event to the store, the
\* knowledge base first and the customer-support process last
C24_Witness ==
  /\ Len(events) = 3
  /\ events[1].session_id = HookSession(3)
  /\ events[2].session_id = HookSession(1)
  /\ events[3].session_id = HookSession(2)
  /\ obs.op = "save_agent_interaction"
  /\ obs.hook = 2

----------------------------------------------------------------------------
(* SpecFilters: one specialised hook that records routing decisions or      *)
(* technical solutions and reads them back from the store                  *)

\* calls made on the hook
MaxFilterOps == 3

S_TechnicalSolution == <<"T","e","c","h","n","i","c","a","l"," ","S","o","l","u","t","i","o","n",":"," ">>
S_Problem == <<"P","r","o","b","l","e","m",":"," ">>
S_Solution == <<"\n","S","o","l","u","t","i","o","n",":"," ">>
S_Success == <<"\n","S","u","c","c","e","s","s",":"," ">>
S_True == <<"T","r","u","e">>
S_False == <<"F","a","l","s","e">>

\* the one event a specialised hook records a text as
other_event(mem, actor, session, text, create_raises) ==
  LET e == [memory_id |-> mem, actor_id |-> actor, session_id |-> session,
            messages |-> << <<text, "OTHER">> >>]
  IN  [calls |-> <<e>>, stored |-> IF create_raises THEN <<>> ELSE <<e>>, raised |-> "none"]

\* OrchestratorMemoryHook.save_routing_decision(user_query, selected_agent, reasoning)
save_routing_decision(mem, actor, session, user_query, selected_agent, reasoning, create_raises) ==
  other_event(mem, actor, session,
              S_RoutingDecision \o S_Query \o user_query \o S_RoutedTo \o selected_agent
                \o S_Reasoning \o reasoning,
              create_raises)

\* KnowledgeBaseMemoryHook.save_technical_solution(problem, solution, success)
save_technical_solution(mem, actor, session, problem, solution, success, create_raises) ==
  other_event(mem, actor, session,
              S_TechnicalSolution \o S_Problem \o problem \o S_Solution \o solution
                \o S_Success \o (IF success THEN S_True ELSE S_False),
              create_raises)

X_SHOUTED == <<"R","O","U","T","I","N","G"," ","D","E","C","I","S","I","O","N"," ","a","n","d"," ","T","E","C","H","N","I","C","A","L"," ","S","O","L","U","T","I","O","N">>
R_trailing == <<"t","e","c","h","n","i","c","a","l"," ","\n">>
X_reset == <<"r","e","s","e","t"," ","S","M","C">>

\* what retrieve_memories can do for the semantic namespace: fail, return the
\* records of the store, or return records of other writers
FilterOutcomes ==
  { Raises,
    Returns(store_records(events, store_strategies,
                          full_namespace(S_customer, actor_id, S_semantic), actor_id, top_k)),
    Returns(<< Memory(X_RoutingDecision), Memory(X_BatteryInfo) >>),
    Returns(<< Memory(X_TechnicalSolution), MemoryNotDict >>),
    Returns(<< Memory(X_SHOUTED), MemoryNoText >>) }

InitFilters ==
  /\ InitHookOnly
  /\ agent_type \in {A_Orchestrator, A_KnowledgeBase}
  /\ actor_id = Actor_001
  /\ _namespaces = NoneNamespaces
  /\ store_strategies = DefaultStrategies
  /\ messages = <<>>
  /\ events = <<>>
  /\ create_event_calls = <<>>
  /\ retrieve_calls = 0
  /\ strategy_calls = 0
  /\ strategy_fetch = "none"
  /\ pc = "ready"
  /\ prompt = <<>>
  /\ returned = <<>>
  /\ turn = 0
  /\ rounds = 0
  /\ obs = NoObs

FilterOp ==
  /\ rounds < MaxFilterOps
  /\ rounds' = rounds + 1
  /\ UNCHANGED <<hookVars, store_strategies, messages, strategy_calls, strategy_fetch, pc,
                 prompt, returned, answer, turn, clientVars>>

FilterSaves(op, r) ==
  /\ create_event_calls' = create_event_calls \o r.calls
  /\ events' = events \o r.stored
  /\ obs' = [op |-> op, calls |-> r.calls, raised |-> r.raised]
  /\ UNCHANGED retrieve_calls

FilterRetrieves(op, out, r) ==
  /\ retrieve_calls' = retrieve_calls + 1
  /\ obs' = [op |-> op, outcome |-> out, result |-> r.result, raised |-> r.raised]
  /\ UNCHANGED <<events, create_event_calls>>

HookSavesRoutingDecision ==
  /\ FilterOp
  /\ agent_type = A_Orchestrator
  /\ \E user_query \in {Q_battery, <<>>}, reasoning \in {R_tech, R_trailing},
        create_raises \in BOOLEAN :
       FilterSaves("save_routing_decision",
                   save_routing_decision(memory_id, actor_id, HookSessionId, user_query,
                                         S_KnowledgeBase, reasoning, create_raises))

HookSavesTechnicalSolution ==
  /\ FilterOp
  /\ agent_type = A_KnowledgeBase
  /\ \E problem \in {Q_battery, <<>>}, success \in BOOLEAN, create_raises \in BOOLEAN :
       FilterSaves("save_technical_solution",
                   save_technical_solution(memory_id, actor_id, HookSessionId, problem,
                                           X_reset, success, create_raises))

HookGetsRoutingContext ==
  /\ FilterOp
  /\ agent_type = A_Orchestrator
  /\ \E out \in FilterOutcomes :
       FilterRetrieves("get_routing_context", out, get_routing_context(out))

HookGetsTechnicalHistory ==
  /\ FilterOp
  /\ agent_type = A_KnowledgeBase
  /\ \E out \in FilterOutcomes :
       FilterRetrieves("get_technical_history", out, get_technical_history(out))

NextFilters ==
  \/ HookSavesRoutingDecision
  \/ HookSavesTechnicalSolution
  \/ HookGetsRoutingContext
  \/ HookGetsTechnicalHistory

SpecFilters == InitFilters /\ [][NextFilters]_vars

----------------------------------------------------------------------------
(* Claims checked under SpecFilters                                         *)

\* the phrase the retrieval method named op filters on
FilterPhrase(op) ==
  IF op = "get_routing_context" THEN S_routing_decision ELSE S_technical_solution

FilteredRetrieval == obs.op \in {"get_routing_context", "get_technical_history"}

\* the texts of the well-formed records the store returned, stripped
ReturnedTexts ==
  IF obs.outcome.raises THEN {}
  ELSE { str_strip(obs.outcome.memories[i].text) :
           i \in { j \in 1..Len(obs.outcome.memories) : obs.outcome.memories[j].shape = "ok" } }

\* the texts this hook has recorded in the store
RecordedTexts == { events[i].messages[1][1] : i \in 1..Len(events) }

\* C25: every text returned by get_routing_context contains "routing
\* decision", and every text returned by get_technical_history contains
\* "technical solution", whatever the case of its letters; a retrieved text
\* without the phrase is not returned; and a routing decision or technical
\* solution this hook recorded through save_routing_decision or
\* save_technical_solution is returned when the store retrieves it.
C25_TypeSpecificFilters ==
  FilteredRetrieval =>
    /\ \A i \in 1..Len(obs.result) :
         /\ str_contains(str_lower(obs.result[i]), FilterPhrase(obs.op))
         /\ obs.result[i] \in ReturnedTexts
    /\ \A t \in ReturnedTexts :
         ~str_contains(str_lower(t), FilterPhrase(obs.op)) => t \notin Range(obs.result)
    /\ \A t \in RecordedTexts :
         str_strip(t) \in ReturnedTexts => str_strip(t) \in Range(obs.result)

\* C25: a routing decision recorded with save_routing_decision was retrieved
\* from the store and returned by get_routing_context
C25_Witness ==
  /\ obs.op = "get_routing_context"
  /\ events # <<>>
  /\ obs.result # <<>>
  /\ \E t \in RecordedTexts : t # str_strip(t) /\ str_strip(t) \in Range(obs.result)

\* C25: get_technical_history dropped a routing decision and kept a text
\* with the phrase in capitals
C25_TechnicalWitness ==
  /\ obs.op = "get_technical_history"
  /\ obs.outcome = Returns(<< Memory(X_SHOUTED), MemoryNoText >>)
  /\ obs.result = << X_SHOUTED >>

\* C25: get_routing_context dropped a retrieved text without the phrase
C25_DroppedWitness ==
  /\ obs.op = "get_routing_context"
  /\ obs.outcome = Returns(<< Memory(X_RoutingDecision), Memory(X_BatteryInfo) >>)
  /\ obs.result = << X_RoutingDecision >>

----------------------------------------------------------------------------
(* The orchestrators: OrchestratorAgent and MemoryEnhancedOrchestrator      *)

S_RouteThisQuery == <<"R","o","u","t","e"," ","t","h","i","s"," ","q","u","e","r","y",":"," ">>
S_ROUTE_TO_CustomerSupport == <<"R","O","U","T","E","_","T","O",":"," ","C","u","s","t","o","m","e","r","S","u","p","p","o","r","t">>
S_ROUTE_TO_KnowledgeBase == <<"R","O","U","T","E","_","T","O",":"," ","K","n","o","w","l","e","d","g","e","B","a","s","e">>
S_DefaultRouting == <<"D","e","f","a","u","l","t"," ","r","o","u","t","i","n","g"," ","t","o"," ","C","u","s","t","o","m","e","r","S","u","p","p","o","r","t">>

\* what routing_agent.invoke can do: raise, or return a response without a
\* content key, with an empty content list, with a first block without text,
\* or with a text
RoutingRaises == [kind |-> "raises", text |-> <<>>]
ResponseNoContent == [kind |-> "no_content", text |-> <<>>]
ResponseEmptyContent == [kind |-> "empty_content", text |-> <<>>]
ResponseNoText == [kind |-> "no_text", text |-> <<>>]
ResponseText(t) == [kind |-> "text", text |-> t]

\* response.get('content', [{}])[0].get('text', '')
routing_response(out) ==
  IF out.kind = "raises" THEN [exc |-> "Exception", text |-> <<>>]
  ELSE IF out.kind = "empty_content" THEN [exc |-> "IndexError", text |-> <<>>]
  ELSE [exc |-> "none", text |-> out.text]

\* the parse with the KnowledgeBase test first
parse_routing_kb_first(text) ==
  IF str_contains(text, S_ROUTE_TO_KnowledgeBase)
  THEN [agent |-> "knowledge_base", name |-> S_KnowledgeBase, reasoning |-> text]
  ELSE IF str_contains(text, S_ROUTE_TO_CustomerSupport)
  THEN [agent |-> "customer_support", name |-> S_CustomerSupport, reasoning |-> text]
  ELSE [agent |-> "customer_support", name |-> S_CustomerSupport,
        reasoning |-> S_DefaultRouting]

\* the if / elif / else on routing_response
parse_routing(text) ==
  IF str_contains(text, S_ROUTE_TO_CustomerSupport)
  THEN [agent |-> "customer_support", name |-> S_CustomerSupport, reasoning |-> text]
  ELSE IF str_contains(text, S_ROUTE_TO_KnowledgeBase)
  THEN [agent |-> "knowledge_base", name |-> S_KnowledgeBase, reasoning |-> text]
  ELSE [agent |-> "customer_support", name |-> S_CustomerSupport,
        reasoning |-> S_DefaultRouting]

\* OrchestratorAgent.route_query(query): out is what routing_agent.invoke does
route_query(out) ==
  LET r == routing_response(out) IN
  IF r.exc # "none"
  THEN [agent |-> "customer_support", name |-> S_CustomerSupport, raised |-> "none"]
  ELSE [agent |-> parse_routing(r.text).agent, name |-> parse_routing(r.text).name,
        raised |-> "none"]

\* route_query of MemoryEnhancedOrchestrator with the recording after its
\* try block, reached on both paths
memory_route_query_always_saves(out, hook, query, create_raises) ==
  LET r == routing_response(out)
      d == parse_routing(r.text)
      saved == IF hook.is_none THEN [calls |-> <<>>, stored |-> <<>>]
               ELSE save_routing_decision(hook.memory_id, hook.actor_id, hook.session_id,
                                          query, d.name, d.reasoning, create_raises)
  IN  IF r.exc # "none"
      THEN [agent |-> "customer_support", name |-> S_CustomerSupport,
            calls |-> saved.calls, stored |-> saved.stored, raised |-> "none"]
      ELSE [agent |-> d.agent, name |-> d.name,
            calls |-> saved.calls, stored |-> saved.stored, raised |-> "none"]

\* MemoryEnhancedOrchestrator.route_query(query): the decision is recorded
\* through the hook when there is one
memory_route_query(out, hook, query, create_raises) ==
  LET r == routing_response(out)
      d == parse_routing(r.text)
  IN  IF r.exc # "none"
      THEN [agent |-> "customer_support", name |-> S_CustomerSupport,
            calls |-> <<>>, stored |-> <<>>, raised |-> "none"]
      ELSE LET saved == IF hook.is_none THEN [calls |-> <<>>, stored |-> <<>>]
                        ELSE save_routing_decision(hook.memory_id, hook.actor_id,
                                                   hook.session_id, query, d.name,
                                                   d.reasoning, create_raises)
           IN  [agent |-> d.agent, name |-> d.name,
                calls |-> saved.calls, stored |-> saved.stored, raised |-> "none"]

\* handle_query(query) of both classes after route_query returned route:
\* selected_agent.invoke(query) and the dict returned
handle_query(route, query, invoke_raises) ==
  [invoked   |-> << [agent |-> route.agent, query |-> query] >>,
   routed_to |-> IF invoke_raises THEN <<>> ELSE route.name,
   raised    |-> IF invoke_raises THEN "Exception" ELSE "none"]

----------------------------------------------------------------------------
(* SpecOrchestrator: queries handled by an OrchestratorAgent and by a       *)
(* MemoryEnhancedOrchestrator whose routing agent carries the orchestrator  *)
(* hook, or none (memory_id is None then).  messages is the transcript of   *)
(* the memory-enhanced routing agent; the routing agent of OrchestratorAgent *)
(* has no hook and nothing reads its transcript.                            *)

\* queries handled
MaxQueries == 1

T_kb == <<"R","O","U","T","E","_","T","O",":"," ","K","n","o","w","l","e","d","g","e","B","a","s","e"," ","-"," ","t","e","c","h","n","i","c","a","l">>
T_cs == <<"R","O","U","T","E","_","T","O",":"," ","C","u","s","t","o","m","e","r","S","u","p","p","o","r","t"," ","-"," ","p","o","l","i","c","y">>
T_both == <<"R","O","U","T","E","_","T","O",":"," ","K","n","o","w","l","e","d","g","e","B","a","s","e",","," ","n","o","t"," ","R","O","U","T","E","_","T","O",":"," ","C","u","s","t","o","m","e","r","S","u","p","p","o","r","t">>
T_lower == <<"r","o","u","t","e","_","t","o",":"," ","k","n","o","w","l","e","d","g","e","b","a","s","e">>

RoutingOutcomes ==
  { RoutingRaises, ResponseNoContent, ResponseEmptyContent, ResponseNoText,
    ResponseText(T_kb), ResponseText(T_cs), ResponseText(T_both), ResponseText(T_lower) }

OrchestratorQueries == { Q_battery }

\* the memory_hook of the MemoryEnhancedOrchestrator
memory_hook ==
  [is_none |-> memory_id = None, memory_id |-> memory_id, actor_id |-> actor_id,
   session_id |-> HookSessionId]

\* routing_agent.invoke("Route this query: " + query) seen from the hook: the
\* prompt is added and retrieve_agent_context runs, and when the agent
\* returns, the response is added and save_agent_interaction runs.  found is
\* what retrieve_memories returns for each namespace.
routing_turn(msgs, query, out, found) ==
  LET added    == Append(msgs, UserText(S_RouteThisQuery \o query))
      cache    == namespaces(_namespaces, [raises |-> FALSE, strategies |-> store_strategies])
      relevant == get_relevant_namespaces(cache, actor_id)
      r        == retrieve_agent_context(added, agent_type, relevant,
                                         [i \in 1..Len(relevant.val) |-> found])
      answered == IF out.kind = "text" THEN Append(r.messages, AssistantText(out.text))
                  ELSE IF out.kind = "no_text" THEN Append(r.messages, AssistantToolUse)
                  ELSE IF out.kind = "empty_content" THEN Append(r.messages, AssistantEmpty)
                  ELSE r.messages
      saved    == IF out.kind = "raises" THEN [calls |-> <<>>, raised |-> "none"]
                  ELSE save_agent_interaction(answered, memory_id, actor_id, HookSessionId,
                                              agent_type, FALSE)
  IN  IF memory_hook.is_none
      THEN [messages |-> IF out.kind = "text" THEN Append(added, AssistantText(out.text))
                         ELSE added,
            cache |-> _namespaces, fetches |-> 0, retrieves |-> 0, calls |-> <<>>]
      ELSE [messages |-> answered, cache |-> cache,
            fetches |-> IF _namespaces.is_none THEN 1 ELSE 0,
            retrieves |-> r.retrieves, calls |-> saved.calls]

InitOrchestrator ==
  /\ _memory_id = [c \in Clients |-> None]
  /\ progress = memory_id_set(NoProgress, OldMemoryId)
  /\ store_memories = {OldMemoryId}
  /\ create_calls = 0
  /\ client_ops = 0
  /\ answer = <<>>
  /\ memory_id \in {OldMemoryId, None}
  /\ agent_type = A_Orchestrator
  /\ actor_id = Actor_001
  /\ _namespaces = NoneNamespaces
  /\ store_strategies = DefaultStrategies
  /\ messages = <<>>
  /\ events = <<>>
  /\ create_event_calls = <<>>
  /\ retrieve_calls = 0
  /\ strategy_calls = 0
  /\ strategy_fetch = "none"
  /\ pc = "ready"
  /\ prompt = <<>>
  /\ returned = <<>>
  /\ turn = 0
  /\ rounds = 0
  /\ obs = NoObs

OrchestratorOp ==
  /\ turn < MaxQueries
  /\ turn' = turn + 1
  /\ UNCHANGED <<agent_type, actor_id, memory_id, store_strategies, pc, prompt, returned,
                 answer, rounds, clientVars>>

\* a method of OrchestratorAgent: nothing of the memory is touched
BasicCall(op, query, out, route, handled) ==
  /\ OrchestratorOp
  /\ obs' = [op |-> op, class |-> "OrchestratorAgent", query |-> query, outcome |-> out,
             events_before |-> Len(events),
             agent |-> route.agent, name |-> route.name, decisions |-> <<>>,
             invoked |-> handled.invoked, routed_to |-> handled.routed_to,
             raised |-> handled.raised]
  /\ UNCHANGED <<_namespaces, messages, events, callVars>>

\* a method of MemoryEnhancedOrchestrator: the routing agent's turn, then the
\* decision recorded by route_query
MemoryCall(op, query, out, found, route, handled) ==
  LET t == routing_turn(messages, query, out, found) IN
  /\ OrchestratorOp
  /\ messages' = t.messages
  /\ _namespaces' = t.cache
  /\ strategy_calls' = strategy_calls + t.fetches
  /\ strategy_fetch' = IF t.fetches = 1 THEN "ok" ELSE strategy_fetch
  /\ retrieve_calls' = retrieve_calls + t.retrieves
  /\ create_event_calls' = create_event_calls \o t.calls \o route.calls
  /\ events' = events \o t.calls \o route.stored
  /\ obs' = [op |-> op, class |-> "MemoryEnhancedOrchestrator", query |-> query,
             outcome |-> out, events_before |-> Len(events),
             agent |-> route.agent, name |-> route.name, decisions |-> route.calls,
             invoked |-> handled.invoked, routed_to |-> handled.routed_to,
             raised |-> handled.raised]

NotHandled == [invoked |-> <<>>, routed_to |-> <<>>, raised |-> "none"]

OrchestratorRoutesQuery ==
  \E query \in OrchestratorQueries, out \in RoutingOutcomes :
    BasicCall("route_query", query, out, route_query(out), NotHandled)

OrchestratorHandlesQuery ==
  \E query \in OrchestratorQueries, out \in RoutingOutcomes, invoke_raises \in BOOLEAN :
    BasicCall("handle_query", query, out, route_query(out),
              handle_query(route_query(out), query, invoke_raises))

MemoryOrchestratorRoutesQuery ==
  \E query \in OrchestratorQueries, out \in RoutingOutcomes, create_raises \in BOOLEAN,
     found \in {Returns(<<>>), Returns(<< Memory(X_RoutingDecision) >>)} :
    LET route == memory_route_query(out, memory_hook, query, create_raises) IN
    MemoryCall("route_query", query, out, found, route, NotHandled)

MemoryOrchestratorHandlesQuery ==
  \E query \in OrchestratorQueries, out \in RoutingOutcomes, create_raises \in BOOLEAN,
     found \in {Returns(<<>>), Returns(<< Memory(X_RoutingDecision) >>)},
     invoke_raises \in BOOLEAN :
    LET route == memory_route_query(out, memory_hook, query, create_raises) IN
    MemoryCall("handle_query", query, out, found, route,
               handle_query(route, query, invoke_raises))

NextOrchestrator ==
  \/ OrchestratorRoutesQuery
  \/ OrchestratorHandlesQuery
  \/ MemoryOrchestratorRoutesQuery
  \/ MemoryOrchestratorHandlesQuery

SpecOrchestrator == InitOrchestrator /\ [][NextOrchestrator]_vars

----------------------------------------------------------------------------
(* Claims checked under SpecOrchestrator                                    *)

Routed == obs.op \in {"route_query", "handle_query"}

\* the text route_query parses, empty when the response has none
RoutingText == IF obs.outcome.kind = "text" THEN obs.outcome.text ELSE <<>>

\* C26: route_query of both orchestrators never raises and returns either the
\* customer-support agent with "CustomerSupport" or the knowledge-base agent
\* with "KnowledgeBase"; it returns KnowledgeBase only when the routing
\* response contains "ROUTE_TO: KnowledgeBase" and not "ROUTE_TO:
\* CustomerSupport", and CustomerSupport in every other case, the routing
\* agent raising included.
C26_RouteQueryTotal ==
  (Routed /\ obs.op = "route_query") =>
    /\ obs.raised = "none"
    /\ \/ obs.agent = "customer_support" /\ obs.name = S_CustomerSupport
       \/ obs.agent = "knowledge_base" /\ obs.name = S_KnowledgeBase
    /\ (obs.name = S_KnowledgeBase =>
          /\ obs.outcome.kind = "text"
          /\ str_contains(RoutingText, S_ROUTE_TO_KnowledgeBase)
          /\ ~str_contains(RoutingText, S_ROUTE_TO_CustomerSupport))
    /\ (obs.outcome.kind # "text"
          \/ ~str_contains(RoutingText, S_ROUTE_TO_KnowledgeBase)
          \/ str_contains(RoutingText, S_ROUTE_TO_CustomerSupport)
        => obs.name = S_CustomerSupport)

\* C26: a response naming both agents was routed to customer support by the
\* memory-enhanced orchestrator
C26_Witness ==
  /\ obs.op = "route_query"
  /\ obs.class = "MemoryEnhancedOrchestrator"
  /\ obs.outcome = ResponseText(T_both)
  /\ obs.name = S_CustomerSupport

\* C26: the routing agent raised and OrchestratorAgent returned customer
\* support
C26_RaisedWitness ==
  /\ obs.op = "route_query"
  /\ obs.class = "OrchestratorAgent"
  /\ obs.outcome = RoutingRaises
  /\ obs.agent = "customer_support"

\* the routing decisions the call has added to the store: the events recorded
\* with role OTHER since it started
RoutingDecisionEvents ==
  { i \in (obs.events_before + 1)..Len(events) : events[i].messages[1][2] = "OTHER" }

\* C27: handle_query of MemoryEnhancedOrchestrator saves at most one routing
\* decision for the query; the agent name in it is the 'routed_to' value
\* returned and names the one specialist agent that is invoked, once and with
\* the original query; when the routing agent raises, no routing decision is
\* saved and the customer-support agent is invoked.
C27_DecisionMatchesExecution ==
  (obs.op = "handle_query" /\ obs.class = "MemoryEnhancedOrchestrator") =>
    /\ Len(obs.decisions) <= 1
    /\ Cardinality(RoutingDecisionEvents) <= Len(obs.decisions)
    /\ Len(obs.invoked) = 1
    /\ obs.invoked[1].query = obs.query
    /\ obs.invoked[1].agent = obs.agent
    /\ (obs.raised = "none" => obs.routed_to = obs.name)
    /\ \A i \in 1..Len(obs.decisions) :
         /\ obs.decisions[i].messages[1][1] =
              S_RoutingDecision \o S_Query \o obs.query \o S_RoutedTo \o obs.name
                \o S_Reasoning
                \o (IF parse_routing(RoutingText).reasoning = RoutingText
                    THEN RoutingText ELSE S_DefaultRouting)
         /\ obs.name = (IF obs.invoked[1].agent = "knowledge_base"
                        THEN S_KnowledgeBase ELSE S_CustomerSupport)
    /\ (obs.outcome.kind = "raises" =>
          /\ obs.decisions = <<>>
          /\ RoutingDecisionEvents = {}
          /\ obs.invoked[1].agent = "customer_support")

\* C27: a query routed to the knowledge base was recorded and executed there
C27_Witness ==
  /\ obs.op = "handle_query"
  /\ obs.class = "MemoryEnhancedOrchestrator"
  /\ obs.outcome = ResponseText(T_kb)
  /\ Cardinality(RoutingDecisionEvents) = 1
  /\ obs.routed_to = S_KnowledgeBase
  /\ obs.invoked = << [agent |-> "knowledge_base", query |-> obs.query] >>
  /\ Len(events) = obs.events_before + 2

\* C27: the routing agent raised, nothing was recorded and customer support
\* was invoked
C27_RaisedWitness ==
  /\ obs.op = "handle_query"
  /\ obs.class = "MemoryEnhancedOrchestrator"
  /\ memory_id # None
  /\ obs.outcome = RoutingRaises
  /\ Len(events) = obs.events_before
  /\ obs.invoked = << [agent |-> "customer_support", query |-> obs.query] >>

----------------------------------------------------------------------------
(* Further claims checked under SpecClient                                  *)

\* the step is a call of the named method
ClientStep(op) == client_ops' = client_ops + 1 /\ obs'.op = op

\* C28: cleanup_memory then create-or-get.  When cleanup_memory returns True,
\* the client's cached memory id and the persisted setup_status.memory_id are
\* both absent, and nothing was deleted from or created in the store; when
\* the next call is get_or_create_memory on that client, it makes exactly one
\* create call, and the id that call returns is persisted, cached and
\* returned.
C28_CleanupThenCreate ==
  [][ /\ (ClientStep("cleanup_memory") /\ obs'.result = TRUE) =>
            /\ _memory_id'[obs'.client] = None
            /\ persisted_memory_id(progress') = None
            /\ store_memories' = store_memories
            /\ create_calls' = create_calls
      /\ (/\ obs.op = "cleanup_memory" /\ obs.result = TRUE
          /\ ClientStep("get_or_create_memory") /\ obs'.client = obs.client) =>
            /\ obs'.creates = 1
            /\ create_calls' = create_calls + 1
            /\ (obs'.raised = "none" =>
                  /\ obs'.result # None
                  /\ obs'.result \notin store_memories
                  /\ persisted_memory_id(progress') = obs'.result
                  /\ _memory_id'[obs'.client] = obs'.result) ]_vars

\* C28: the persisted id was cleaned up, its memory is still in the store, and
\* the get_or_create_memory that followed created and persisted a new one
C28_Witness ==
  /\ obs.op = "get_or_create_memory"
  /\ obs.cached_before = None
  /\ obs.progress_before = [has_setup_status |-> TRUE, memory_id |-> None]
  /\ OldMemoryId \in store_memories
  /\ obs.creates = 1
  /\ obs.raised = "none"
  /\ persisted_memory_id(progress) = obs.result
  /\ obs.result # OldMemoryId

\* C29: over any sequence of create, get_or_create, memory_id reads and
\* cleanup_memory calls on the clients that share the progress record,
\* whenever a client's cached memory id is set it is the persisted
\* setup_status.memory_id.
C29_CacheCoherent ==
  \A c \in Clients : _memory_id[c] # None => _memory_id[c] = persisted_memory_id(progress)

\* C29, what the code keeps: a client whose cache was unset when it made the
\* last call has, after it, a cache that is unset or holds the persisted id.
C29_CoherentAfterLoad ==
  (obs.op \in {"get_or_create_memory", "create_multi_agent_memory", "cleanup_memory"}
     /\ obs.cached_before = None)
    => _memory_id[obs.client] \in {None, persisted_memory_id(progress)}

----------------------------------------------------------------------------
(* Further claims checked under Spec                                       *)

\* the number of "Agent Context (<agent_type>):" headers in text
HeaderCount(text) ==
  LET header == S_AgentContextOpen \o agent_type \o S_AgentContextClose
  IN  Cardinality({i \in 0..(Len(text) - Len(header)) :
                     SubSeq(text, i + 1, i + Len(header)) = header})

\* the text of message m, empty when its first content block carries none
TextOf(m) ==
  IF m.content # <<>> /\ "text" \in DOMAIN m.content[1] THEN m.content[1].text
  ELSE <<>>

\* C30: over a turn in which messages are appended one at a time, every step
\* leaves the messages already in the transcript as they were, so a message
\* is rewritten by the pre-processing callback only when it is appended; after
\* every step a genuine user message carries at most one
\* "Agent Context (<agent_type>):" header and no other message carries one.
C30_InjectedAtMostOnce ==
  [][/\ IsPrefix(messages, messages')
     /\ Len(messages') <= Len(messages) + 1
     /\ \A i \in 1..Len(messages') :
          HeaderCount(TextOf(messages'[i]))
            <= (IF GenuineUser(messages'[i]) THEN 1 ELSE 0)]_vars

\* C30 witness: a completed turn with a tool round whose prompt was rewritten
\* and carries one header, the three later messages as they were appended
C30_Witness ==
  /\ TurnDone
  /\ rounds = 1
  /\ Len(messages) >= 4
  /\ TurnInjected
  /\ HeaderCount(messages[Len(messages) - 3].content[1].text) = 1
  /\ SubSeq(messages, Len(messages) - 2, Len(messages))
       = << AssistantToolUse, ToolResult, AssistantText(answer) >>

====
